---- MODULE Spec2Model ----
(***************************************************************************)
(* A model of ntf::vk_context (src/src/vulkan_context.cpp/.hpp): the       *)
(* swapchain manager, the frame executor (draw_frame) and the capability   *)
(* queries, with the GPU as a concurrent process that completes submitted  *)
(* command buffers at arbitrary later times.                               *)
(***************************************************************************)
EXTENDS Integers, Sequences, FiniteSets, TLC

VARIABLES
  phase,                    \* control position of the host thread
  _curr_frame,              \* vk_context::_curr_frame
  _framebuffer_resized,     \* vk_context::_framebuffer_resized
  _in_flight_fences,        \* slot -> TRUE when the fence is signaled
  graphics_queue,           \* submissions the GPU has not completed yet
  _swapchain,               \* handle of the swapchain
  _swapchain_images,        \* handles of the swapchain's images
  _swapchain_image_views,
  _swapchain_framebuffers,
  _swapchain_format,
  _swapchain_extent,
  create_info,              \* the last VkSwapchainCreateInfoKHR handed to the driver
  surface,                  \* what _query_swapchain_support reports
  fb_size,                  \* what _framebuffer_size_callback reports
  live,                     \* swapchain-scope handles that exist in the driver
  invalid_destroys,         \* handles handed to vkDestroy* while not live
  cleanup,                  \* the last _cleanup_swapchain: who ran it, GPU work pending
  idle_waited,              \* wait_idle() returned and draw_frame was not called since
  recreations,              \* _recreate_swapchain runs in a row (see RecreatedAgain)
  call,                     \* the current / last call of the public interface
  log,                      \* the driver calls of the current / last call, in order
  queue_families,           \* the queue families of the physical device
  indices,                  \* the last result of _find_queue_families
  _enable_layers,           \* vk_context::_enable_layers
  _instance,                \* vk_context::_instance
  _messenger,               \* vk_context::_messenger
  _surface,                 \* vk_context::_surface
  _physical_device,         \* vk_context::_physical_device
  platform,                 \* the host's arguments and what the Vulkan loader reports
  semaphores,               \* the semaphores that are signaled
  present_queue,            \* present requests the presentation engine has not executed
  presented_early,          \* images presented while their rendering was not finished
  transfer_queue,           \* copies the transfer queue has not executed yet
  buffer_data               \* buffer -> what its memory holds

vars == <<phase, _curr_frame, _framebuffer_resized, _in_flight_fences, graphics_queue,
          _swapchain, _swapchain_images, _swapchain_image_views,
          _swapchain_framebuffers, _swapchain_format, _swapchain_extent, create_info,
          surface, fb_size, live, invalid_destroys, cleanup, idle_waited, recreations,
          call, log, queue_families, indices, _enable_layers, _instance, _messenger,
          _surface, _physical_device, platform, semaphores, present_queue,
          presented_early, transfer_queue, buffer_data>>

swapchain_vars == <<_swapchain, _swapchain_images, _swapchain_image_views,
                    _swapchain_framebuffers, _swapchain_format, _swapchain_extent,
                    create_info, live, invalid_destroys, cleanup>>

context_vars == <<_instance, _messenger, _surface, _physical_device, platform>>

buffer_vars == <<transfer_queue, buffer_data>>

env_vars == <<surface, fb_size, queue_families, indices, _enable_layers, context_vars,
              buffer_vars>>

gpu_vars == <<semaphores, present_queue, presented_early>>

frame_vars == <<_curr_frame, _framebuffer_resized, _in_flight_fences, graphics_queue,
                idle_waited, recreations, gpu_vars>>

(***************************************************************************)
(* Program constants                                                       *)
(***************************************************************************)
MAX_FRAMES_IN_FLIGHT == 2

\* std::numeric_limits<uint32_t>::max(), the width of an undefined extent; TLC's
\* integers end at 2^31 - 1, which stands for it: every other number of the model
\* is far below it, so no uint32_t operation of the code wraps
UINT32_MAX == 2147483647

Slots == 0 .. (MAX_FRAMES_IN_FLIGHT - 1)

VK_SUCCESS == "VK_SUCCESS"
VK_SUBOPTIMAL_KHR == "VK_SUBOPTIMAL_KHR"
VK_ERROR_OUT_OF_DATE_KHR == "VK_ERROR_OUT_OF_DATE_KHR"
\* stands for every VkResult other than the three above
VK_ERROR_DEVICE_LOST == "VK_ERROR_DEVICE_LOST"

VkResults == {VK_SUCCESS, VK_SUBOPTIMAL_KHR, VK_ERROR_OUT_OF_DATE_KHR, VK_ERROR_DEVICE_LOST}

VK_FORMAT_B8G8R8A8_SRGB == "VK_FORMAT_B8G8R8A8_SRGB"
VK_FORMAT_R8G8B8A8_UNORM == "VK_FORMAT_R8G8B8A8_UNORM"
VK_COLOR_SPACE_SRGB_NONLINEAR_KHR == "VK_COLOR_SPACE_SRGB_NONLINEAR_KHR"
VK_COLOR_SPACE_EXTENDED_SRGB_LINEAR_EXT == "VK_COLOR_SPACE_EXTENDED_SRGB_LINEAR_EXT"
VK_PRESENT_MODE_FIFO_KHR == "VK_PRESENT_MODE_FIFO_KHR"
VK_PRESENT_MODE_MAILBOX_KHR == "VK_PRESENT_MODE_MAILBOX_KHR"
VK_PRESENT_MODE_IMMEDIATE_KHR == "VK_PRESENT_MODE_IMMEDIATE_KHR"

\* VK_NULL_HANDLE, and the handles the driver gives out: <<kind, swapchain number, index>>
VK_NULL_HANDLE == <<"null", 0, 0>>
SwapchainHandle(g) == <<"swapchain", g, 0>>
ImageHandle(g, i) == <<"image", g, i>>
ImageViewHandle(g, i) == <<"image_view", g, i>>
FramebufferHandle(g, i) == <<"framebuffer", g, i>>
InstanceHandle == <<"instance", 0, 0>>
MessengerHandle == <<"messenger", 0, 0>>
SurfaceHandle == <<"surface", 0, 0>>
PhysicalDeviceHandle(i) == <<"physical_device", 0, i>>
RenderPassHandle == <<"render_pass", 0, 0>>
PipelineLayoutHandle == <<"pipeline_layout", 0, 0>>
PipelineHandle == <<"pipeline", 0, 0>>
GraphicsCommandPoolHandle == <<"command_pool", 0, 0>>
TransferCommandPoolHandle == <<"command_pool", 0, 1>>
CommandBufferHandle(s) == <<"command_buffer", 0, s>>
TransferCommandBufferHandle == <<"command_buffer", 0, MAX_FRAMES_IN_FLIGHT>>
ImageAvailSemaphore(s) == <<"image_avail_semaphore", 0, s>>
RenderFinishSemaphore(s) == <<"render_finish_semaphore", 0, s>>
FenceHandle(s) == <<"fence", 0, s>>
VertexBufferHandle == <<"buffer", 0, 0>>
VertexMemoryHandle == <<"memory", 0, 0>>
StagingBufferHandle == <<"buffer", 0, 1>>
StagingMemoryHandle == <<"memory", 0, 1>>
\* the value of a handle member that was never written: some bit pattern other than
\* VK_NULL_HANDLE (the null pattern is the other value such a member can hold)
Indeterminate == <<"indeterminate", 0, 0>>

VK_LAYER_KHRONOS_validation == "VK_LAYER_KHRONOS_validation"
VK_KHR_SWAPCHAIN_EXTENSION_NAME == "VK_KHR_swapchain"
\* stands for a device extension other than the one above
VK_KHR_MAINTENANCE1_EXTENSION_NAME == "VK_KHR_maintenance1"
\* the instance extensions a windowing system asks for
VK_KHR_SURFACE_EXTENSION_NAME == "VK_KHR_surface"
VK_KHR_XCB_SURFACE_EXTENSION_NAME == "VK_KHR_xcb_surface"

(***************************************************************************)
(* Bounds of the model                                                     *)
(***************************************************************************)
\* widths and heights range over 0 .. MaxDim
MaxDim == 3
\* minImageCount ranges over 1 .. MaxImages, maxImageCount over 0 .. MaxImages + 1
MaxImages == 3
\* a physical device has at most MaxFamilies queue families
MaxFamilies == 3
\* a surface reports at most MaxFormats formats and at most MaxModes present modes
MaxFormats == 2
MaxModes == 2
\* the host requires at most MaxExtensions instance extensions
MaxExtensions == 2
\* vkEnumeratePhysicalDevices reports at most MaxDevices devices
MaxDevices == 2

(***************************************************************************)
(* Pure helpers                                                            *)
(***************************************************************************)
Range(s) == {s[i] : i \in 1 .. Len(s)}

Min(a, b) == IF a < b THEN a ELSE b

\* std::clamp(v, lo, hi)
Clamp(v, lo, hi) == IF v < lo THEN lo ELSE IF hi < v THEN hi ELSE v

Extent(w, h) == [width |-> w, height |-> h]

(***************************************************************************)
(* Capability query: _find_queue_families                                  *)
(***************************************************************************)
\* std::optional<uint32_t>
Nullopt == [has_value |-> FALSE, value |-> 0]
Some(v) == [has_value |-> TRUE, value |-> v]

\* a queue family: its VK_QUEUE_GRAPHICS_BIT and VK_QUEUE_TRANSFER_BIT, and what
\* vkGetPhysicalDeviceSurfaceSupportKHR answers for its index
QueueFamilies == [graphics : BOOLEAN, transfer : BOOLEAN, present : BOOLEAN]

\* queue_family_indices{}
NoIndices == [graphics_family |-> Nullopt, present_family |-> Nullopt,
              transfer_family |-> Nullopt]

is_complete(ind) ==
  /\ ind.graphics_family.has_value
  /\ ind.present_family.has_value
  /\ ind.transfer_family.has_value

\* the loop body taking the graphics bit of a family for its transfer bit
ScanFamily_transfer_from_graphics(ind, family, i) ==
  LET a == IF family.graphics THEN [ind EXCEPT !.graphics_family = Some(i)] ELSE ind
      b == IF family.graphics THEN [a EXCEPT !.transfer_family = Some(i)] ELSE a
  IN  IF family.present THEN [b EXCEPT !.present_family = Some(i)] ELSE b

\* one pass of the loop body for the family at index i, before the is_complete test
ScanFamily(ind, family, i) ==
  LET a == IF family.graphics THEN [ind EXCEPT !.graphics_family = Some(i)] ELSE ind
      b == IF family.transfer THEN [a EXCEPT !.transfer_family = Some(i)] ELSE a
  IN  IF family.present THEN [b EXCEPT !.present_family = Some(i)] ELSE b

RECURSIVE ScanFrom(_, _, _)
ScanFrom(families, i, ind) ==
  IF i >= Len(families) THEN ind
  ELSE LET next == ScanFamily(ind, families[i + 1], i)
       IN  IF is_complete(next) THEN next ELSE ScanFrom(families, i + 1, next)

\* the scan without its early exit: every family is looked at
RECURSIVE ScanAll(_, _, _)
ScanAll(families, i, ind) ==
  IF i >= Len(families) THEN ind
  ELSE ScanAll(families, i + 1, ScanFamily(ind, families[i + 1], i))

_find_queue_families_no_break(families) == ScanAll(families, 0, NoIndices)

_find_queue_families(families) ==
  ScanFrom(families, 0, NoIndices)

(***************************************************************************)
(* Swapchain manager: what create_swapchain resolves                       *)
(***************************************************************************)
SurfaceFormat(f, c) == [format |-> f, colorSpace |-> c]

RECURSIVE FirstPreferredFormat(_, _)
FirstPreferredFormat(formats, i) ==
  IF i > Len(formats) THEN formats[1]
  ELSE IF /\ formats[i].format = VK_FORMAT_B8G8R8A8_SRGB
          /\ formats[i].colorSpace = VK_COLOR_SPACE_SRGB_NONLINEAR_KHR
       THEN formats[i]
       ELSE FirstPreferredFormat(formats, i + 1)

\* the format lambda without its search: the first reported format is taken
ChooseFormat_first(formats) == formats[1]

ChooseFormat(formats) == FirstPreferredFormat(formats, 1)

\* the present-mode lambda without its search: the guaranteed mode is taken
ChoosePresentMode_fifo(present_modes) == VK_PRESENT_MODE_FIFO_KHR

ChoosePresentMode(present_modes) ==
  IF \E i \in 1 .. Len(present_modes) : present_modes[i] = VK_PRESENT_MODE_MAILBOX_KHR
  THEN VK_PRESENT_MODE_MAILBOX_KHR
  ELSE VK_PRESENT_MODE_FIFO_KHR

\* the extent lambda without its early return of the surface's current extent
ChooseExtent_from_framebuffer(capabilities, fb) ==
  LET height == Clamp(fb.width, capabilities.minImageExtent.width,
                      capabilities.maxImageExtent.width)
      width == Clamp(height, capabilities.minImageExtent.height,
                     capabilities.maxImageExtent.height)
  IN  Extent(width, height)

ChooseExtent(capabilities, fb) ==
  IF capabilities.currentExtent.width # UINT32_MAX
  THEN capabilities.currentExtent
  ELSE LET actual_width == fb.width
           \* actual_extent.height = clamp(actual_extent.width, min.width, max.width)
           height == Clamp(actual_width, capabilities.minImageExtent.width,
                           capabilities.maxImageExtent.width)
           \* actual_extent.width = clamp(actual_extent.height, min.height, max.height)
           width == Clamp(height, capabilities.minImageExtent.height,
                          capabilities.maxImageExtent.height)
       IN  Extent(width, height)

\* the image count without its clamp to maxImageCount
ChooseImageCount_unclamped(capabilities) == capabilities.minImageCount + 1

\* the image count without the one added to minImageCount
ChooseImageCount_min(capabilities) ==
  IF /\ capabilities.maxImageCount > 0
     /\ capabilities.minImageCount > capabilities.maxImageCount
  THEN capabilities.maxImageCount
  ELSE capabilities.minImageCount

ChooseImageCount(capabilities) ==
  LET image_count == capabilities.minImageCount + 1
  IN  IF capabilities.maxImageCount > 0 /\ image_count > capabilities.maxImageCount
      THEN capabilities.maxImageCount
      ELSE image_count

\* the fields of VkSwapchainCreateInfoKHR that create_swapchain resolves
SwapchainRequest(support, fb) ==
  LET format == ChooseFormat(support.formats)
  IN  [imageFormat     |-> format.format,
       imageColorSpace |-> format.colorSpace,
       presentMode     |-> ChoosePresentMode(support.present_modes),
       imageExtent     |-> ChooseExtent(support.capabilities, fb),
       minImageCount   |-> ChooseImageCount(support.capabilities)]

(***************************************************************************)
(* Surfaces                                                                *)
(***************************************************************************)
UndefinedExtent == Extent(UINT32_MAX, UINT32_MAX)

\* the surface of the spec's end-to-end scenario A
ScenarioA ==
  [capabilities |-> [minImageCount |-> 2, maxImageCount |-> 4,
                     currentExtent |-> Extent(800, 600),
                     minImageExtent |-> Extent(1, 1),
                     maxImageExtent |-> Extent(4096, 4096)],
   formats |-> <<SurfaceFormat(VK_FORMAT_B8G8R8A8_SRGB, VK_COLOR_SPACE_SRGB_NONLINEAR_KHR),
                 SurfaceFormat(VK_FORMAT_R8G8B8A8_UNORM, VK_COLOR_SPACE_SRGB_NONLINEAR_KHR)>>,
   present_modes |-> <<VK_PRESENT_MODE_FIFO_KHR, VK_PRESENT_MODE_MAILBOX_KHR>>]

\* the surfaces of the frame loop: scenario A, and a surface of two images that leaves
\* the extent to the swapchain
LoopSurfaces ==
  {ScenarioA,
   [ScenarioA EXCEPT !.capabilities.currentExtent = UndefinedExtent,
                     !.capabilities.minImageCount = 1,
                     !.capabilities.maxImageCount = 0,
                     !.present_modes = <<VK_PRESENT_MODE_FIFO_KHR>>]}

WindowSizes == {Extent(800, 600), Extent(1024, 768)}

InstanceExtensions == {VK_KHR_SURFACE_EXTENSION_NAME, VK_KHR_XCB_SURFACE_EXTENSION_NAME}

\* a platform on which every step of the bootstrap succeeds
DefaultPlatform ==
  [enable_layers    |-> FALSE,
   req_ext          |-> <<VK_KHR_SURFACE_EXTENSION_NAME>>,
   layers           |-> {VK_LAYER_KHRONOS_validation},
   extensions       |-> InstanceExtensions,
   vkCreateInstance |-> VK_SUCCESS,
   CreateDebugUtilsMessengerEXT |-> VK_SUCCESS,
   surface_factory  |-> [succeeds |-> TRUE, returns |-> FALSE],
   devices          |-> <<[queue_families |->
                             <<[graphics |-> TRUE, transfer |-> TRUE, present |-> TRUE]>>,
                           extensions |-> {VK_KHR_MAINTENANCE1_EXTENSION_NAME,
                                           VK_KHR_SWAPCHAIN_EXTENSION_NAME},
                           formats |-> ScenarioA.formats,
                           present_modes |-> <<VK_PRESENT_MODE_FIFO_KHR>>]>>]

(***************************************************************************)
(* Handles, the driver calls a call makes, and the GPU                     *)
(***************************************************************************)
\* the buffers of create_vertex_buffer and what their memory holds: "none" while the
\* buffer does not exist, "undefined" before it is written
NoBuffers == [b \in {StagingBufferHandle, VertexBufferHandle} |-> "none"]

\* one driver call: its name and the handle it acts on
Ev(name) == <<name, VK_NULL_HANDLE>>
EvH(name, h) == <<name, h>>
EvEach(name, hs) == [i \in 1 .. Len(hs) |-> EvH(name, hs[i])]

Count(events, name) == Cardinality({i \in 1 .. Len(events) : events[i][1] = name})
Has(events, name) == Count(events, name) > 0
\* every call named a in the log comes before every call named b
AllBefore(events, a, b) ==
  \A i, j \in 1 .. Len(events) : (events[i][1] = a /\ events[j][1] = b) => i < j

MemberHandles ==
  {_swapchain} \cup Range(_swapchain_images) \cup Range(_swapchain_image_views)
    \cup Range(_swapchain_framebuffers)

\* swapchain numbers still referred to by the driver, the members or pending GPU work
UsedNumbers ==
  {h[2] : h \in live \cup MemberHandles}
    \cup {graphics_queue[i].framebuffer[2] : i \in 1 .. Len(graphics_queue)}

\* the driver gives a new swapchain the smallest number not in use
FreshNumber ==
  CHOOSE g \in 1 .. (Cardinality(UsedNumbers) + 1) :
    g \notin UsedNumbers /\ \A h \in 1 .. (g - 1) : h \in UsedNumbers

\* vkDeviceWaitIdle / vkWaitForFences: the GPU completes the pending submissions,
\* signaling the fence each was submitted with
FencesWhenIdle(fences, queue) ==
  [s \in Slots |->
     fences[s] \/ \E i \in 1 .. Len(queue) : queue[i].submit.fence = FenceHandle(s)]

\* the objects create_sync_objects creates
SyncObjects ==
  UNION {{ImageAvailSemaphore(s), RenderFinishSemaphore(s), FenceHandle(s)} : s \in Slots}

\* the objects of the logical device that destroy() releases after the swapchain
DeviceObjects ==
  {VertexBufferHandle, VertexMemoryHandle, TransferCommandPoolHandle,
   GraphicsCommandPoolHandle, TransferCommandBufferHandle, PipelineHandle,
   PipelineLayoutHandle, RenderPassHandle}
    \cup {CommandBufferHandle(s) : s \in Slots} \cup SyncObjects

\* the semaphores, the present requests and the record of early presentations
GpuState(sems, presents, early) == [sems |-> sems, presents |-> presents, early |-> early]

\* the presentation engine executes the present requests in order, each when the
\* semaphore it waits on is signaled, which unsignals it; `queue` holds the submissions
\* whose rendering is not finished
RECURSIVE PresentEngine(_, _)
PresentEngine(gpu, queue) ==
  IF gpu.presents = <<>> \/ Head(gpu.presents).wait \notin gpu.sems THEN gpu
  ELSE LET p == Head(gpu.presents)
       IN  PresentEngine(
             GpuState(gpu.sems \ {p.wait}, Tail(gpu.presents),
                      IF \E i \in 1 .. Len(queue) : queue[i].slot = p.frame
                      THEN gpu.early \cup {p.image} ELSE gpu.early),
             queue)

\* the graphics queue completes its k oldest submissions: each consumes the semaphore
\* it waited on and signals the one it signals, then the presentation engine runs
RECURSIVE GpuRun(_, _, _)
GpuRun(gpu, queue, k) ==
  IF k = 0 \/ queue = <<>> THEN PresentEngine(gpu, queue)
  ELSE LET e == Head(queue).submit
           done == GpuState((gpu.sems \ {e.pWaitSemaphores}) \cup {e.pSignalSemaphores},
                            gpu.presents, gpu.early)
       IN  GpuRun(PresentEngine(done, Tail(queue)), Tail(queue), k - 1)

SetGpu(gpu) ==
  /\ semaphores' = gpu.sems
  /\ present_queue' = gpu.presents
  /\ presented_early' = gpu.early

(***************************************************************************)
(* Swapchain manager: creation and cleanup                                 *)
(***************************************************************************)
\* the handles _cleanup_swapchain hands to vkDestroy*, in order
CleanupHandles == _swapchain_framebuffers \o _swapchain_image_views \o <<_swapchain>>

\* _cleanup_swapchain destroying the swapchain before what was created from it
CleanupEvents_swapchain_first ==
  <<EvH("vkDestroySwapchainKHR", _swapchain)>>
    \o EvEach("vkDestroyFramebuffer", _swapchain_framebuffers)
    \o EvEach("vkDestroyImageView", _swapchain_image_views)

CleanupEvents ==
  EvEach("vkDestroyFramebuffer", _swapchain_framebuffers)
    \o EvEach("vkDestroyImageView", _swapchain_image_views)
    \o <<EvH("vkDestroySwapchainKHR", _swapchain)>>

\* _cleanup_swapchain releasing the render pass with the framebuffers made for it
LiveAfterCleanup_render_pass_too ==
  {h \in live : /\ h \notin Range(CleanupHandles)
                /\ ~(h[1] = "image" /\ h[2] = _swapchain[2])
                /\ h # RenderPassHandle}

\* what exists in the driver after _cleanup_swapchain (the images go with the swapchain)
LiveAfterCleanup ==
  {h \in live : /\ h \notin Range(CleanupHandles)
                /\ ~(h[1] = "image" /\ h[2] = _swapchain[2])}

\* handles destroyed by _cleanup_swapchain that did not exist any more
InvalidInCleanup == {h \in Range(CleanupHandles) : h # VK_NULL_HANDLE /\ h \notin live}

\* how the driver answers the creation calls of a (re)build of n images:
\* all accepted, or the call `step` rejected (for the element `index` of its loop)
Rebuilds(n) ==
  {[step |-> "ok", index |-> 0], [step |-> "create_swapchain", index |-> 0]}
    \cup [step : {"create_imageviews", "create_framebuffers"}, index : 0 .. (n - 1)]

\* a vector resized to n whose first k elements were newly created
Filled(old, n, k, kind, g) ==
  [i \in 1 .. n |-> IF i <= k THEN <<kind, g, i - 1>>
                    ELSE IF i <= Len(old) THEN old[i] ELSE VK_NULL_HANDLE]

\* image views created by create_imageviews: all n, or those before the rejected one
ViewsMade(rb, n) ==
  CASE rb.step = "create_swapchain"  -> 0
    [] rb.step = "create_imageviews" -> rb.index
    [] OTHER                         -> n

\* create_framebuffers stopping one framebuffer short of the image views
FramebuffersMade_one_short(rb, n) ==
  CASE rb.step = "ok"                  -> n - 1
    [] rb.step = "create_framebuffers" -> rb.index
    [] OTHER                           -> 0

\* framebuffers created by create_framebuffers
FramebuffersMade(rb, n) ==
  CASE rb.step = "ok"                  -> n
    [] rb.step = "create_framebuffers" -> rb.index
    [] OTHER                           -> 0

\* create_swapchain with an image count that depends on the swapchain it replaces: one
\* image fewer when the old swapchain already has the count the surface resolves to
create_swapchain_members_count_from_old(accepted, g) ==
  LET resolved == SwapchainRequest(surface, fb_size)
      req == [resolved EXCEPT !.minImageCount =
                IF Len(_swapchain_images) = @ THEN surface.capabilities.minImageCount
                ELSE @]
  IN  /\ _swapchain_format' = req.imageFormat
      /\ _swapchain_extent' = req.imageExtent
      /\ create_info' = req
      /\ _swapchain' = IF accepted THEN SwapchainHandle(g) ELSE _swapchain
      /\ _swapchain_images' =
           IF accepted THEN [i \in 1 .. req.minImageCount |-> ImageHandle(g, i - 1)]
           ELSE _swapchain_images

\* create_swapchain up to vkGetSwapchainImagesKHR: the resolved format and extent are
\* stored before the driver is asked, the handle and the images only when it accepts
create_swapchain_members(accepted, g) ==
  LET req == SwapchainRequest(surface, fb_size)
  IN  /\ _swapchain_format' = req.imageFormat
      /\ _swapchain_extent' = req.imageExtent
      /\ create_info' = req
      /\ _swapchain' = IF accepted THEN SwapchainHandle(g) ELSE _swapchain
      /\ _swapchain_images' =
           IF accepted THEN [i \in 1 .. req.minImageCount |-> ImageHandle(g, i - 1)]
           ELSE _swapchain_images

\* create_swapchain; create_imageviews; create_framebuffers, answered by rb, from the
\* driver state live_in and with the log so far log_in
Build(rb, live_in, log_in) ==
  LET n   == ChooseImageCount(surface.capabilities)
      g   == FreshNumber
      sc  == rb.step # "create_swapchain"
      kv  == ViewsMade(rb, n)
      kf  == FramebuffersMade(rb, n)
  IN  /\ create_swapchain_members(sc, g)
      /\ _swapchain_image_views' =
           IF sc THEN Filled(_swapchain_image_views, n, kv, "image_view", g)
           ELSE _swapchain_image_views
      /\ _swapchain_framebuffers' =
           IF rb.step \in {"ok", "create_framebuffers"}
           THEN Filled(_swapchain_framebuffers, n, kf, "framebuffer", g)
           ELSE _swapchain_framebuffers
      /\ live' = live_in
                   \cup (IF sc THEN {SwapchainHandle(g)}
                                      \cup {ImageHandle(g, i) : i \in 0 .. (n - 1)}
                         ELSE {})
                   \cup {ImageViewHandle(g, i) : i \in 0 .. (kv - 1)}
                   \cup {FramebufferHandle(g, i) : i \in 0 .. (kf - 1)}
      /\ log' = log_in
                  \o <<Ev("vkCreateSwapchainKHR")>>
                  \o [i \in 1 .. (IF sc THEN Min(kv + 1, n) ELSE 0) |->
                        Ev("vkCreateImageView")]
                  \o [i \in 1 .. (IF sc /\ kv = n THEN Min(kf + 1, n) ELSE 0) |->
                        Ev("vkCreateFramebuffer")]

\* _recreate_swapchain without its vkDeviceWaitIdle
_recreate_swapchain_no_idle(rb, fences_in, queue_in, gpu_in, log_in) ==
  /\ _in_flight_fences' = fences_in
  /\ graphics_queue' = queue_in
  /\ SetGpu(gpu_in)
  /\ cleanup' = [by |-> "_recreate_swapchain", pending |-> Len(queue_in)]
  /\ invalid_destroys' = invalid_destroys \cup InvalidInCleanup
  /\ Build(rb, LiveAfterCleanup, log_in \o <<Ev("_recreate_swapchain")>> \o CleanupEvents)

\* _recreate_swapchain, entered with the fences fences_in, the pending GPU work
\* queue_in, the semaphores and present requests gpu_in and the log log_in of the call
\* that runs it
_recreate_swapchain(rb, fences_in, queue_in, gpu_in, log_in) ==
  LET fences_idle == FencesWhenIdle(fences_in, queue_in)   \* vkDeviceWaitIdle
      queue_idle  == <<>>
  IN  /\ _in_flight_fences' = fences_idle
      /\ graphics_queue' = queue_idle
      /\ SetGpu(GpuRun(gpu_in, queue_in, Len(queue_in)))
      /\ cleanup' = [by |-> "_recreate_swapchain", pending |-> Len(queue_idle)]
      /\ invalid_destroys' = invalid_destroys \cup InvalidInCleanup
      /\ Build(rb, LiveAfterCleanup,
               log_in \o <<Ev("_recreate_swapchain"), Ev("vkDeviceWaitIdle")>>
                      \o CleanupEvents)

(***************************************************************************)
(* The public interface, as the host calls it                              *)
(***************************************************************************)
\* the number of _recreate_swapchain runs in a row, with no frame submitted and no
\* change of what the surface reports since the first of them: 0, 1, or 2 for two or more
RecreatedAgain(before) == IF before = 0 THEN 1 ELSE 2

NoCall == [op |-> "none", outcome |-> "returned", acquire |-> "none",
           submit |-> "none", present |-> "none", frame_before |-> 0,
           resized_before |-> FALSE]

Called(op) == [NoCall EXCEPT !.op = op]

Outcome(rb) == IF rb.step = "ok" THEN "returned" ELSE "threw"
PhaseAfter(rb) == IF rb.step = "ok" THEN "ready" ELSE "failed"

\* flag_dirty_framebuffer()
flag_dirty_framebuffer ==
  /\ phase = "ready"
  /\ _framebuffer_resized' = TRUE
  /\ call' = Called("flag_dirty_framebuffer")
  /\ log' = <<>>
  /\ UNCHANGED <<phase, _curr_frame, _in_flight_fences, graphics_queue, swapchain_vars,
                 idle_waited, recreations, gpu_vars, env_vars>>

\* wait_idle()
wait_idle ==
  /\ phase \in {"ready", "failed"}
  /\ _in_flight_fences' = FencesWhenIdle(_in_flight_fences, graphics_queue)
  /\ graphics_queue' = <<>>
  /\ SetGpu(GpuRun(GpuState(semaphores, present_queue, presented_early), graphics_queue,
                   Len(graphics_queue)))
  /\ idle_waited' = TRUE
  /\ call' = Called("wait_idle")
  /\ log' = <<Ev("vkDeviceWaitIdle")>>
  /\ UNCHANGED <<phase, _curr_frame, _framebuffer_resized, swapchain_vars, recreations,
                 env_vars>>

\* the driver calls of destroy(), in order, after those of _cleanup_swapchain
DestroyTail ==
  <<EvH("vkDestroyBuffer", VertexBufferHandle), EvH("vkFreeMemory", VertexMemoryHandle)>>
    \o [i \in 1 .. (3 * MAX_FRAMES_IN_FLIGHT) |->
          CASE i % 3 = 1 -> Ev("vkDestroySemaphore")
            [] i % 3 = 2 -> Ev("vkDestroySemaphore")
            [] OTHER     -> Ev("vkDestroyFence")]
    \o <<Ev("vkDestroyCommandPool"), Ev("vkDestroyCommandPool"),
         Ev("vkDestroyPipeline"), Ev("vkDestroyPipelineLayout"),
         Ev("vkDestroyRenderPass"), Ev("vkDestroyDevice")>>
    \o (IF _enable_layers THEN <<Ev("DestroyDebugUtilsMessengerEXT")>> ELSE <<>>)
    \o <<Ev("vkDestroySurfaceKHR"), Ev("vkDestroyInstance")>>

\* destroy() with the swapchain cleaned up at its end instead of its beginning
DestroyCalls_swapchain_last == DestroyTail \o CleanupEvents

\* the driver calls of destroy(), in order
DestroyCalls == CleanupEvents \o DestroyTail

\* destroy()
destroy ==
  /\ phase \in {"ready", "failed"}
  /\ phase' = "destroyed"
  /\ cleanup' = [by |-> "destroy", pending |-> Len(graphics_queue)]
  /\ invalid_destroys' = invalid_destroys \cup InvalidInCleanup
  /\ live' = LiveAfterCleanup \ DeviceObjects
  /\ call' = Called("destroy")
  /\ log' = DestroyCalls
  /\ UNCHANGED <<_curr_frame, _framebuffer_resized, _in_flight_fences, graphics_queue,
                 _swapchain, _swapchain_images, _swapchain_image_views,
                 _swapchain_framebuffers, _swapchain_format, _swapchain_extent,
                 create_info, idle_waited, recreations, gpu_vars, env_vars>>

\* the host calls draw_frame(), which blocks in vkWaitForFences
draw_frame_call ==
  /\ phase = "ready"
  /\ phase' = "wait_fence"
  /\ idle_waited' = FALSE
  /\ call' = [Called("draw_frame") EXCEPT !.outcome = "waiting",
                                          !.frame_before = _curr_frame,
                                          !.resized_before = _framebuffer_resized]
  /\ log' = <<Ev("vkWaitForFences")>>
  /\ UNCHANGED <<_curr_frame, _framebuffer_resized, _in_flight_fences, graphics_queue,
                 swapchain_vars, recreations, gpu_vars, env_vars>>

\* draw_frame does not wait for the fence of its slot
WaitForFence_skipped(fences, slot) == TRUE

\* vkWaitForFences(_in_flight_fences[slot], UINT64_MAX) returns
WaitForFence(fences, slot) == fences[slot]

\* an out-of-date acquire is not handled and falls through to the fatal results
AcquireSkipsFrame_never(result) == FALSE

\* the acquire result that makes draw_frame rebuild the swapchain and return
AcquireSkipsFrame(result) == result = VK_ERROR_OUT_OF_DATE_KHR

\* a suboptimal acquire is not let through
AcquireFatal_suboptimal(result) == result # VK_SUCCESS

\* the acquire results that are fatal, once the one above is handled
AcquireFatal(result) == result # VK_SUCCESS /\ result # VK_SUBOPTIMAL_KHR

\* the resize flag is not looked at after presenting
PresentRecreates_ignores_resize(result, resized) ==
  result = VK_ERROR_OUT_OF_DATE_KHR \/ result = VK_SUBOPTIMAL_KHR

\* only an out-of-date present makes draw_frame rebuild the swapchain
PresentRecreates_out_of_date_only(result, resized) == result = VK_ERROR_OUT_OF_DATE_KHR

\* the condition on which draw_frame rebuilds the swapchain after presenting
PresentRecreates(result, resized) ==
  result = VK_ERROR_OUT_OF_DATE_KHR \/ result = VK_SUBOPTIMAL_KHR \/ resized

\* the present results that are fatal, once the condition above is handled
PresentFatal(result) == result # VK_SUCCESS

\* the slot index is not advanced
NextFrame_stuck(frame) == frame

\* the slot after a frame
NextFrame(frame) == (frame + 1) % MAX_FRAMES_IN_FLIGHT

\* draw_frame() throws: nothing else changes after the state reached so far
Throw(fences, queue, events) ==
  /\ phase' = "failed"
  /\ _in_flight_fences' = fences
  /\ graphics_queue' = queue
  /\ log' = log \o events
  /\ UNCHANGED <<_curr_frame, _framebuffer_resized, swapchain_vars>>

\* the VkSubmitInfo and the fence draw_frame hands to vkQueueSubmit for a slot
SubmitInfo(slot) ==
  [pWaitSemaphores   |-> ImageAvailSemaphore(slot),
   pWaitDstStageMask |-> "VK_PIPELINE_STAGE_COLOR_ATTACHMENT_OUTPUT_BIT",
   pCommandBuffers   |-> CommandBufferHandle(slot),
   pSignalSemaphores |-> RenderFinishSemaphore(slot),
   fence             |-> FenceHandle(slot)]

\* the present request waiting on the semaphore the acquire signals
PresentInfo_waits_image_avail(slot, image_index) ==
  [pWaitSemaphores |-> ImageAvailSemaphore(slot),
   pSwapchains     |-> _swapchain,
   pImageIndices   |-> image_index]

\* the VkPresentInfoKHR draw_frame hands to vkQueuePresentKHR
PresentInfo(slot, image_index) ==
  [pWaitSemaphores |-> RenderFinishSemaphore(slot),
   pSwapchains     |-> _swapchain,
   pImageIndices   |-> image_index]

\* the request the presentation engine holds for the present of the frame of a slot
PresentRequest(info, slot) ==
  [wait  |-> info.pWaitSemaphores,
   image |-> ImageHandle(info.pSwapchains[2], info.pImageIndices),
   frame |-> slot]

\* draw_frame() from the return of vkWaitForFences to its end
draw_frame ==
  /\ phase = "wait_fence"
  /\ WaitForFence(_in_flight_fences, _curr_frame)
  /\ UNCHANGED <<idle_waited, env_vars>>
  /\ LET slot    == _curr_frame
         fences1 == [_in_flight_fences EXCEPT ![slot] = FALSE]
         acq     == <<Ev("vkResetFences"), Ev("vkAcquireNextImageKHR")>>
         gpu0    == GpuState(semaphores, present_queue, presented_early)
     IN
     \E acquire \in VkResults :
       \/ /\ AcquireSkipsFrame(acquire)
          /\ \E rb \in Rebuilds(ChooseImageCount(surface.capabilities)) :
               /\ _recreate_swapchain(rb, fences1, graphics_queue, gpu0, log \o acq)
               /\ phase' = PhaseAfter(rb)
               /\ call' = [call EXCEPT !.acquire = acquire, !.outcome = Outcome(rb)]
               /\ recreations' = RecreatedAgain(recreations)
               /\ UNCHANGED <<_curr_frame, _framebuffer_resized>>
       \/ /\ ~AcquireSkipsFrame(acquire)
          /\ AcquireFatal(acquire)
          /\ Throw(fences1, graphics_queue, acq)
          /\ call' = [call EXCEPT !.acquire = acquire, !.outcome = "threw"]
          /\ UNCHANGED <<recreations, gpu_vars>>
       \/ /\ ~AcquireSkipsFrame(acquire)
          /\ ~AcquireFatal(acquire)
          /\ \E image_index \in 0 .. (Len(_swapchain_framebuffers) - 1) :
               LET fb   == _swapchain_framebuffers[image_index + 1]
                   got  == <<Ev("vkResetFences"),
                             EvH("vkAcquireNextImageKHR", ImageHandle(_swapchain[2],
                                                                      image_index))>>
                   rec  == got \o <<Ev("vkResetFences"), Ev("vkResetCommandBuffer"),
                                    Ev("vkBeginCommandBuffer")>>
                   cmds == rec \o <<EvH("vkCmdBeginRenderPass", fb), Ev("vkCmdDraw"),
                                    Ev("vkEndCommandBuffer")>>
                   sub  == cmds \o <<Ev("vkQueueSubmit")>>
                   pres == sub \o <<Ev("vkQueuePresentKHR")>>
                   \* the presentation engine signals the semaphore of the acquire
                   gpu1 == GpuState(semaphores \cup {ImageAvailSemaphore(slot)},
                                    present_queue, presented_early)
                   queue1 == Append(graphics_queue,
                                    [slot |-> slot, framebuffer |-> fb,
                                     submit |-> SubmitInfo(slot)])
                   request == PresentRequest(PresentInfo(slot, image_index), slot)
                   gpu2 == PresentEngine(GpuState(gpu1.sems,
                                                  Append(present_queue, request),
                                                  presented_early),
                                         queue1)
               IN
               \* vkBeginCommandBuffer or vkEndCommandBuffer fails
               \/ /\ \E events \in {rec, cmds} : Throw(fences1, graphics_queue, events)
                  /\ call' = [call EXCEPT !.acquire = acquire, !.outcome = "threw"]
                  /\ SetGpu(gpu1)
                  /\ UNCHANGED recreations
               \* vkQueueSubmit fails
               \/ /\ Throw(fences1, graphics_queue, sub)
                  /\ call' = [call EXCEPT !.acquire = acquire, !.outcome = "threw",
                                          !.submit = VK_ERROR_DEVICE_LOST]
                  /\ SetGpu(gpu1)
                  /\ UNCHANGED recreations
               \* vkQueuePresentKHR queues the request with its semaphore wait
               \/ \E present \in VkResults :
                    \/ /\ PresentRecreates(present, _framebuffer_resized)
                       /\ _framebuffer_resized' = FALSE
                       /\ \E rb \in Rebuilds(ChooseImageCount(surface.capabilities)) :
                            /\ _recreate_swapchain(rb, fences1, queue1, gpu2, log \o pres)
                            /\ phase' = PhaseAfter(rb)
                            /\ call' = [call EXCEPT !.acquire = acquire,
                                                    !.submit = VK_SUCCESS,
                                                    !.present = present,
                                                    !.outcome = Outcome(rb)]
                            /\ _curr_frame' =
                                 IF rb.step = "ok" THEN NextFrame(_curr_frame)
                                 ELSE _curr_frame
                            /\ recreations' = RecreatedAgain(0)
                    \/ /\ ~PresentRecreates(present, _framebuffer_resized)
                       /\ PresentFatal(present)
                       /\ Throw(fences1, queue1, pres)
                       /\ call' = [call EXCEPT !.acquire = acquire,
                                               !.submit = VK_SUCCESS,
                                               !.present = present,
                                               !.outcome = "threw"]
                       /\ SetGpu(gpu2)
                       /\ recreations' = 0
                    \/ /\ ~PresentRecreates(present, _framebuffer_resized)
                       /\ ~PresentFatal(present)
                       /\ phase' = "ready"
                       /\ _in_flight_fences' = fences1
                       /\ graphics_queue' = queue1
                       /\ log' = log \o pres
                       /\ call' = [call EXCEPT !.acquire = acquire,
                                               !.submit = VK_SUCCESS,
                                               !.present = present,
                                               !.outcome = "returned"]
                       /\ SetGpu(gpu2)
                       /\ _curr_frame' = NextFrame(_curr_frame)
                       /\ recreations' = 0
                       /\ UNCHANGED <<_framebuffer_resized, swapchain_vars>>

\* the GPU completes the oldest pending submission, once the semaphore it waits on is
\* signaled, and signals its semaphore and its fence
gpu_complete ==
  /\ phase \in {"ready", "wait_fence", "failed"}
  /\ graphics_queue # <<>>
  /\ Head(graphics_queue).submit.pWaitSemaphores \in semaphores
  /\ _in_flight_fences' =
       FencesWhenIdle(_in_flight_fences, <<Head(graphics_queue)>>)
  /\ graphics_queue' = Tail(graphics_queue)
  /\ SetGpu(GpuRun(GpuState(semaphores, present_queue, presented_early), graphics_queue, 1))
  /\ UNCHANGED <<phase, _curr_frame, _framebuffer_resized, swapchain_vars, idle_waited,
                 recreations, call, log, env_vars>>

\* the window is resized: the surface and the size callback report the new size
surface_changes ==
  /\ phase = "ready"
  /\ \E size \in WindowSizes :
       /\ size # fb_size
       /\ fb_size' = size
       /\ surface' =
            IF surface.capabilities.currentExtent.width # UINT32_MAX
            THEN [surface EXCEPT !.capabilities.currentExtent = size]
            ELSE surface
  /\ recreations' = 0
  /\ UNCHANGED <<phase, _curr_frame, _framebuffer_resized, _in_flight_fences,
                 graphics_queue, swapchain_vars, idle_waited, call, log, queue_families,
                 indices, _enable_layers, context_vars, gpu_vars, buffer_vars>>

(***************************************************************************)
(* The frame loop: the context after a successful initialisation           *)
(***************************************************************************)
Init ==
  /\ phase = "ready"
  /\ _curr_frame = 0
  /\ _framebuffer_resized = FALSE
  /\ _in_flight_fences = [s \in Slots |-> TRUE]
  /\ graphics_queue = <<>>
  /\ surface \in LoopSurfaces
  /\ fb_size = Extent(800, 600)
  /\ create_info = SwapchainRequest(surface, fb_size)
  /\ _swapchain_format = create_info.imageFormat
  /\ _swapchain_extent = create_info.imageExtent
  /\ _swapchain = SwapchainHandle(1)
  /\ _swapchain_images = [i \in 1 .. create_info.minImageCount |-> ImageHandle(1, i - 1)]
  /\ _swapchain_image_views =
       [i \in 1 .. create_info.minImageCount |-> ImageViewHandle(1, i - 1)]
  /\ _swapchain_framebuffers =
       [i \in 1 .. create_info.minImageCount |-> FramebufferHandle(1, i - 1)]
  /\ live = {_swapchain} \cup Range(_swapchain_images) \cup Range(_swapchain_image_views)
              \cup Range(_swapchain_framebuffers) \cup DeviceObjects
  /\ semaphores = {}
  /\ present_queue = <<>>
  /\ presented_early = {}
  /\ transfer_queue = <<>>
  /\ buffer_data = [NoBuffers EXCEPT ![VertexBufferHandle] = "vertices"]
  /\ invalid_destroys = {}
  /\ cleanup = [by |-> "none", pending |-> 0]
  /\ idle_waited = FALSE
  /\ recreations = 0
  /\ call = NoCall
  /\ log = <<>>
  /\ queue_families = <<[graphics |-> TRUE, transfer |-> TRUE, present |-> TRUE]>>
  /\ indices = _find_queue_families(queue_families)
  /\ _enable_layers \in BOOLEAN
  /\ platform = [DefaultPlatform EXCEPT !.enable_layers = _enable_layers]
  /\ _instance = InstanceHandle
  /\ _messenger = IF _enable_layers THEN MessengerHandle ELSE Indeterminate
  /\ _surface = SurfaceHandle
  /\ _physical_device = PhysicalDeviceHandle(0)

Next ==
  \/ draw_frame_call
  \/ draw_frame
  \/ gpu_complete
  \/ flag_dirty_framebuffer
  \/ wait_idle
  \/ destroy
  \/ surface_changes

Spec == Init /\ [][Next]_vars

(***************************************************************************)
(* Initialisation steps, from the context before any of them               *)
(***************************************************************************)
SeqsUpTo(S, n) == UNION {[1 .. k -> S] : k \in 1 .. n}

\* the members of the frame loop and the swapchain before any of them is written
Constructed ==
  /\ _curr_frame = 0
  /\ _framebuffer_resized = FALSE
  /\ _in_flight_fences = [s \in Slots |-> TRUE]
  /\ graphics_queue = <<>>
  /\ _swapchain = VK_NULL_HANDLE
  /\ _swapchain_images = <<>>
  /\ _swapchain_image_views = <<>>
  /\ _swapchain_framebuffers = <<>>
  /\ _swapchain_format = "VK_FORMAT_UNDEFINED"
  /\ _swapchain_extent = Extent(0, 0)
  /\ create_info = [imageFormat |-> "VK_FORMAT_UNDEFINED",
                    imageColorSpace |-> VK_COLOR_SPACE_SRGB_NONLINEAR_KHR,
                    presentMode |-> VK_PRESENT_MODE_FIFO_KHR,
                    imageExtent |-> Extent(0, 0), minImageCount |-> 0]
  /\ live = {}
  /\ semaphores = {}
  /\ present_queue = <<>>
  /\ presented_early = {}
  /\ transfer_queue = <<>>
  /\ buffer_data = NoBuffers
  /\ invalid_destroys = {}
  /\ cleanup = [by |-> "none", pending |-> 0]
  /\ idle_waited = FALSE
  /\ recreations = 0
  /\ call = NoCall
  /\ log = <<>>
  /\ indices = NoIndices

\* the members before create_swapchain, after create_instance(false, ...),
\* create_surface, pick_physical_device and create_logical_device
Uninitialised ==
  /\ Constructed
  /\ phase = "init"
  /\ _enable_layers = FALSE
  /\ platform = DefaultPlatform
  /\ _instance = InstanceHandle
  /\ _messenger = Indeterminate
  /\ _surface = SurfaceHandle
  /\ _physical_device = PhysicalDeviceHandle(0)

\* create_swapchain(size_callback), as the host calls it during initialisation
create_swapchain ==
  /\ phase = "init"
  /\ \E accepted \in BOOLEAN :
       /\ create_swapchain_members(accepted, FreshNumber)
       /\ live' = IF accepted
                  THEN live \cup {SwapchainHandle(FreshNumber)}
                         \cup {ImageHandle(FreshNumber, i) :
                                 i \in 0 .. (ChooseImageCount(surface.capabilities) - 1)}
                  ELSE live
       /\ phase' = IF accepted THEN "swapchain_created" ELSE "failed"
       /\ call' = [Called("create_swapchain") EXCEPT
                     !.outcome = IF accepted THEN "returned" ELSE "threw"]
  /\ log' = <<Ev("vkCreateSwapchainKHR")>>
  /\ UNCHANGED <<_curr_frame, _framebuffer_resized, _in_flight_fences, graphics_queue,
                 _swapchain_image_views, _swapchain_framebuffers, invalid_destroys,
                 cleanup, idle_waited, recreations, gpu_vars, env_vars>>

\* surface capabilities that differ in the image counts, formats and present modes
ImageCounts ==
  {c \in (1 .. MaxImages) \X (0 .. (MaxImages + 1)) : c[2] = 0 \/ c[2] >= c[1]}

SurfaceFormats ==
  {SurfaceFormat(VK_FORMAT_B8G8R8A8_SRGB, VK_COLOR_SPACE_SRGB_NONLINEAR_KHR),
   SurfaceFormat(VK_FORMAT_R8G8B8A8_UNORM, VK_COLOR_SPACE_SRGB_NONLINEAR_KHR),
   SurfaceFormat(VK_FORMAT_B8G8R8A8_SRGB, VK_COLOR_SPACE_EXTENDED_SRGB_LINEAR_EXT)}

PresentModes ==
  {VK_PRESENT_MODE_FIFO_KHR, VK_PRESENT_MODE_MAILBOX_KHR, VK_PRESENT_MODE_IMMEDIATE_KHR}

InitSwapchain ==
  /\ Uninitialised
  /\ \E c \in ImageCounts :
       \E formats \in SeqsUpTo(SurfaceFormats, MaxFormats) :
         \E modes \in SeqsUpTo(PresentModes, MaxModes) :
           surface = [ScenarioA EXCEPT !.capabilities.minImageCount = c[1],
                                       !.capabilities.maxImageCount = c[2],
                                       !.formats = formats,
                                       !.present_modes = modes]
  /\ fb_size = Extent(800, 600)
  /\ queue_families = <<[graphics |-> TRUE, transfer |-> TRUE, present |-> TRUE]>>

NextSwapchain == create_swapchain

SpecSwapchain == InitSwapchain /\ [][NextSwapchain]_vars

\* surface capabilities that differ in the extents, and the sizes of the framebuffer
InitExtent ==
  /\ Uninitialised
  /\ \E current \in {UndefinedExtent} \cup {Extent(w, h) : w, h \in 1 .. MaxDim} :
       \E lo, hi \in {Extent(w, h) : w, h \in 1 .. MaxDim} :
         /\ lo.width <= hi.width
         /\ lo.height <= hi.height
         /\ surface = [ScenarioA EXCEPT !.capabilities.currentExtent = current,
                                        !.capabilities.minImageExtent = lo,
                                        !.capabilities.maxImageExtent = hi]
  /\ fb_size \in {Extent(w, h) : w, h \in 0 .. MaxDim}
  /\ queue_families = <<[graphics |-> TRUE, transfer |-> TRUE, present |-> TRUE]>>

NextExtent == create_swapchain

SpecExtent == InitExtent /\ [][NextExtent]_vars

\* the queue families of a physical device are scanned (by pick_physical_device,
\* create_logical_device, create_swapchain and create_commandpool)
find_queue_families ==
  /\ phase = "init"
  /\ indices' = _find_queue_families(queue_families)
  /\ call' = Called("_find_queue_families")
  /\ phase' = "queried"
  /\ UNCHANGED <<_curr_frame, _framebuffer_resized, _in_flight_fences, graphics_queue,
                 swapchain_vars, idle_waited, recreations, log, surface, fb_size,
                 queue_families, _enable_layers, context_vars, gpu_vars, buffer_vars>>

InitQueueFamilies ==
  /\ Uninitialised
  /\ surface = ScenarioA
  /\ fb_size = Extent(800, 600)
  /\ queue_families \in {<<>>} \cup SeqsUpTo(QueueFamilies, MaxFamilies)

NextQueueFamilies == find_queue_families

SpecQueueFamilies == InitQueueFamilies /\ [][NextQueueFamilies]_vars

(***************************************************************************)
(* Context bootstrap: create_instance, create_surface, pick_physical_device*)
(***************************************************************************)
validation_layers == {VK_LAYER_KHRONOS_validation}

device_extensions == {VK_KHR_SWAPCHAIN_EXTENSION_NAME}

\* check_layer_support(), for the layers vkEnumerateInstanceLayerProperties reports
check_layer_support(avail) == \A layer \in validation_layers : layer \in avail

\* the loop over req_ext of create_instance: the index of the first required extension
\* that is not available, or 0 when all are
RECURSIVE FirstMissing(_, _, _)
FirstMissing(req_ext, exts, i) ==
  IF i > Len(req_ext) THEN 0
  ELSE IF req_ext[i] \in exts THEN FirstMissing(req_ext, exts, i + 1) ELSE i

\* ext_avail of create_instance without its loop
ext_avail_unchecked(req_ext, exts) == TRUE

\* ext_avail of create_instance
ext_avail(req_ext, exts) == FirstMissing(req_ext, exts, 1) = 0

\* check_extension_support(device)
check_extension_support(device) == device_extensions \ device.extensions = {}

\* the is_suitable lambda of pick_physical_device
is_suitable(device) ==
  LET ind == _find_queue_families(device.queue_families)
      ext_supported == check_extension_support(device)
      swapchain_adequate ==
        IF ext_supported
        THEN device.formats # <<>> /\ device.present_modes # <<>>
        ELSE FALSE
  IN  is_complete(ind) /\ ext_supported /\ swapchain_adequate

\* the device loop of pick_physical_device without its break
RECURSIVE SelectDevice_no_break(_, _, _)
SelectDevice_no_break(devices, i, selected) ==
  IF i > Len(devices) THEN selected
  ELSE SelectDevice_no_break(devices, i + 1,
                             IF is_suitable(devices[i]) THEN PhysicalDeviceHandle(i - 1)
                             ELSE selected)

\* the device loop of pick_physical_device, from the device at index i (from 1): the
\* value of _physical_device after it, from the value `selected` before it
RECURSIVE SelectDevice(_, _, _)
SelectDevice(devices, i, selected) ==
  IF i > Len(devices) THEN selected
  ELSE IF is_suitable(devices[i]) THEN PhysicalDeviceHandle(i - 1)
       ELSE SelectDevice(devices, i + 1, selected)

\* what a surface factory does when it is called: whether it produces a surface, and
\* the value it returns, converted to bool
SurfaceFactories == [succeeds : BOOLEAN, returns : BOOLEAN]

\* the physical devices of the model
Devices ==
  [queue_families : {<<>>,
                     <<[graphics |-> TRUE, transfer |-> TRUE, present |-> FALSE]>>,
                     <<[graphics |-> TRUE, transfer |-> TRUE, present |-> TRUE]>>,
                     <<[graphics |-> TRUE, transfer |-> TRUE, present |-> FALSE],
                       [graphics |-> FALSE, transfer |-> FALSE, present |-> TRUE]>>},
   extensions : {{VK_KHR_MAINTENANCE1_EXTENSION_NAME},
                 {VK_KHR_MAINTENANCE1_EXTENSION_NAME, VK_KHR_SWAPCHAIN_EXTENSION_NAME}},
   formats : {<<>>, ScenarioA.formats},
   present_modes : {<<>>, <<VK_PRESENT_MODE_FIFO_KHR>>}]

\* create_instance(enable_layers, req_ext)
create_instance ==
  /\ phase = "init"
  /\ LET layers_checked == IF platform.enable_layers
                           THEN <<Ev("vkEnumerateInstanceLayerProperties")>> ELSE <<>>
         enumerated == layers_checked \o <<Ev("vkEnumerateInstanceExtensionProperties")>>
         created    == enumerated \o <<Ev("vkCreateInstance")>>
     IN
     IF platform.enable_layers /\ ~check_layer_support(platform.layers)
     THEN \* "Validation layers not available"
          /\ phase' = "failed"
          /\ call' = [Called("create_instance") EXCEPT !.outcome = "threw"]
          /\ log' = layers_checked
          /\ UNCHANGED <<_enable_layers, _instance, _messenger>>
     ELSE
       /\ _enable_layers' = platform.enable_layers
       /\ IF ~ext_avail(platform.req_ext, platform.extensions)
          THEN \* "Failed to find the required vulkan extensions"
               /\ phase' = "failed"
               /\ call' = [Called("create_instance") EXCEPT !.outcome = "threw"]
               /\ log' = enumerated
               /\ UNCHANGED <<_instance, _messenger>>
          ELSE IF platform.vkCreateInstance # VK_SUCCESS
          THEN \* "Failed to create vulkan instance"
               /\ phase' = "failed"
               /\ call' = [Called("create_instance") EXCEPT !.outcome = "threw"]
               /\ log' = created
               /\ UNCHANGED <<_instance, _messenger>>
          ELSE
            /\ _instance' = InstanceHandle
            /\ IF ~platform.enable_layers
               THEN /\ phase' = "instance_created"
                    /\ call' = Called("create_instance")
                    /\ log' = created
                    /\ UNCHANGED _messenger
               ELSE IF platform.CreateDebugUtilsMessengerEXT # VK_SUCCESS
               THEN \* "Failed to setup debug menssenger"
                    /\ phase' = "failed"
                    /\ call' = [Called("create_instance") EXCEPT !.outcome = "threw"]
                    /\ log' = created \o <<Ev("CreateDebugUtilsMessengerEXT")>>
                    /\ UNCHANGED _messenger
               ELSE /\ phase' = "instance_created"
                    /\ call' = Called("create_instance")
                    /\ log' = created \o <<Ev("CreateDebugUtilsMessengerEXT")>>
                    /\ _messenger' = MessengerHandle
  /\ UNCHANGED <<frame_vars, swapchain_vars, buffer_vars, surface, fb_size,
                 queue_families, indices,
                 _surface, _physical_device, platform>>

\* create_surface(surface_factory)
create_surface ==
  /\ phase = "instance_created"
  /\ LET factory == platform.surface_factory
     IN  /\ _surface' = IF factory.succeeds THEN SurfaceHandle ELSE _surface
         /\ IF factory.returns
            THEN \* "Failed to create window surface"
                 /\ phase' = "failed"
                 /\ call' = [Called("create_surface") EXCEPT !.outcome = "threw"]
            ELSE /\ phase' = "surface_created"
                 /\ call' = Called("create_surface")
  /\ log' = <<EvH("surface_factory", _instance)>>
  /\ UNCHANGED <<frame_vars, swapchain_vars, buffer_vars, surface, fb_size,
                 queue_families, indices,
                 _enable_layers, _instance, _messenger, _physical_device, platform>>

\* the context as constructed: no member of the bootstrap was written yet
InitBootstrap ==
  /\ Constructed
  /\ phase = "init"
  /\ surface = ScenarioA
  /\ fb_size = Extent(800, 600)
  /\ queue_families = <<[graphics |-> TRUE, transfer |-> TRUE, present |-> TRUE]>>
  /\ _enable_layers \in BOOLEAN
  /\ _instance = Indeterminate
  /\ _messenger = Indeterminate
  /\ _surface = Indeterminate
  /\ _physical_device = Indeterminate
  /\ \E enable_layers \in BOOLEAN, layers \in SUBSET validation_layers,
        req_ext \in {<<>>} \cup SeqsUpTo(InstanceExtensions, MaxExtensions),
        exts \in SUBSET InstanceExtensions,
        created, attached \in {VK_SUCCESS, VK_ERROR_DEVICE_LOST},
        factory \in SurfaceFactories :
       platform = [DefaultPlatform EXCEPT !.enable_layers = enable_layers,
                                          !.req_ext = req_ext,
                                          !.layers = layers,
                                          !.extensions = exts,
                                          !.vkCreateInstance = created,
                                          !.CreateDebugUtilsMessengerEXT = attached,
                                          !.surface_factory = factory]

NextBootstrap ==
  \/ create_instance
  \/ create_surface

SpecBootstrap == InitBootstrap /\ [][NextBootstrap]_vars

\* pick_physical_device()
pick_physical_device ==
  /\ phase = "surface_created"
  /\ LET devices  == platform.devices
         selected == SelectDevice(devices, 1, _physical_device)
     IN
     IF Len(devices) = 0
     THEN \* "Failed to find a GPU with Vulkan support"
          /\ phase' = "failed"
          /\ call' = [Called("pick_physical_device") EXCEPT !.outcome = "threw"]
          /\ log' = <<Ev("vkEnumeratePhysicalDevices")>>
          /\ UNCHANGED _physical_device
     ELSE /\ _physical_device' = selected
          /\ IF selected = VK_NULL_HANDLE
             THEN \* "Failed to find a suitable GPU"
                  /\ phase' = "failed"
                  /\ call' = [Called("pick_physical_device") EXCEPT !.outcome = "threw"]
                  /\ log' = <<Ev("vkEnumeratePhysicalDevices"),
                              Ev("vkEnumeratePhysicalDevices")>>
             ELSE /\ phase' = "device_picked"
                  /\ call' = Called("pick_physical_device")
                  /\ log' = <<Ev("vkEnumeratePhysicalDevices"),
                              Ev("vkEnumeratePhysicalDevices"),
                              EvH("vkGetPhysicalDeviceProperties", selected)>>
  /\ UNCHANGED <<frame_vars, swapchain_vars, buffer_vars, surface, fb_size,
                 queue_families, indices,
                 _enable_layers, _instance, _messenger, _surface, platform>>

\* the context after create_instance(false, ...) and create_surface; _physical_device
\* was never written, so it holds the null pattern or any other
InitDevices ==
  /\ Constructed
  /\ phase = "surface_created"
  /\ surface = ScenarioA
  /\ fb_size = Extent(800, 600)
  /\ queue_families = <<[graphics |-> TRUE, transfer |-> TRUE, present |-> TRUE]>>
  /\ _enable_layers = FALSE
  /\ _instance = InstanceHandle
  /\ _messenger = Indeterminate
  /\ _surface = SurfaceHandle
  /\ _physical_device \in {VK_NULL_HANDLE, Indeterminate}
  /\ \E devices \in {<<>>} \cup SeqsUpTo(Devices, MaxDevices) :
       platform = [DefaultPlatform EXCEPT !.devices = devices]

NextDevices == pick_physical_device

SpecDevices == InitDevices /\ [][NextDevices]_vars

(***************************************************************************)
(* Buffer transfer: create_vertex_buffer, and the rest of the initialisation *)
(***************************************************************************)
\* how the driver answers a _create_buffer: all accepted, or the step that fails
BufferAnswers == {"ok", "vkCreateBuffer", "find_memory_type", "vkAllocateMemory"}

\* the driver calls of _create_buffer for a buffer, up to the step that fails
CreateBufferCalls(answer, buffer, memory) ==
  <<Ev("vkCreateBuffer")>>
    \o (IF answer = "vkCreateBuffer" THEN <<>>
        ELSE <<EvH("vkGetBufferMemoryRequirements", buffer),
               Ev("vkGetPhysicalDeviceMemoryProperties")>>)
    \o (IF answer \in {"vkCreateBuffer", "find_memory_type"} THEN <<>>
        ELSE <<Ev("vkAllocateMemory")>>)
    \o (IF answer = "ok" THEN <<EvH("vkBindBufferMemory", buffer)>> ELSE <<>>)

\* what _create_buffer leaves in the driver
CreateBufferLive(answer, buffer, memory) ==
  CASE answer = "vkCreateBuffer" -> {}
    [] answer = "ok"             -> {buffer, memory}
    [] OTHER                     -> {buffer}

\* what the memory of a buffer holds after _create_buffer
CreateBufferData(answer) == IF answer = "vkCreateBuffer" THEN "none" ELSE "undefined"

\* _copy_buffer returns without waiting for the transfer queue
QueueWaitIdle_no_wait(queue) == TRUE

\* vkQueueWaitIdle(_transfer_queue) returns
QueueWaitIdle(queue) == queue = <<>>

\* the host calls create_vertex_buffer(), which runs up to the vkQueueWaitIdle of
\* _copy_buffer, or to the _create_buffer that throws
create_vertex_buffer_call ==
  /\ phase = "commandbuffers_created"
  /\ \E staging, vertex \in BufferAnswers, submit \in {VK_SUCCESS, VK_ERROR_DEVICE_LOST} :
       LET staged  == CreateBufferCalls(staging, StagingBufferHandle, StagingMemoryHandle)
           written == staged \o <<EvH("vkMapMemory", StagingMemoryHandle),
                                  EvH("memcpy", StagingMemoryHandle),
                                  EvH("vkUnmapMemory", StagingMemoryHandle)>>
           made    == written
                        \o CreateBufferCalls(vertex, VertexBufferHandle, VertexMemoryHandle)
           copied  == made \o <<EvH("vkBeginCommandBuffer", TransferCommandBufferHandle),
                                EvH("vkCmdCopyBuffer", StagingBufferHandle),
                                EvH("vkEndCommandBuffer", TransferCommandBufferHandle),
                                EvH("vkQueueSubmit", TransferCommandBufferHandle),
                                Ev("vkQueueWaitIdle")>>
       IN
       IF staging # "ok"
       THEN /\ phase' = "failed"
            /\ call' = [Called("create_vertex_buffer") EXCEPT !.outcome = "threw"]
            /\ log' = staged
            /\ live' = live \cup CreateBufferLive(staging, StagingBufferHandle,
                                                  StagingMemoryHandle)
            /\ buffer_data' = [buffer_data EXCEPT
                                 ![StagingBufferHandle] = CreateBufferData(staging)]
            /\ UNCHANGED transfer_queue
       ELSE IF vertex # "ok"
       THEN /\ phase' = "failed"
            /\ call' = [Called("create_vertex_buffer") EXCEPT !.outcome = "threw"]
            /\ log' = made
            /\ live' = live \cup {StagingBufferHandle, StagingMemoryHandle}
                         \cup CreateBufferLive(vertex, VertexBufferHandle,
                                               VertexMemoryHandle)
            /\ buffer_data' = [buffer_data EXCEPT
                                 ![StagingBufferHandle] = "vertices",
                                 ![VertexBufferHandle] = CreateBufferData(vertex)]
            /\ UNCHANGED transfer_queue
       ELSE /\ phase' = "wait_transfer"
            /\ call' = [Called("create_vertex_buffer") EXCEPT !.outcome = "waiting",
                                                              !.submit = submit]
            /\ log' = copied
            /\ live' = live \cup {StagingBufferHandle, StagingMemoryHandle,
                                  VertexBufferHandle, VertexMemoryHandle}
            /\ buffer_data' = [buffer_data EXCEPT ![StagingBufferHandle] = "vertices",
                                                  ![VertexBufferHandle] = "undefined"]
            /\ transfer_queue' =
                 IF submit = VK_SUCCESS
                 THEN Append(transfer_queue, [src |-> StagingBufferHandle,
                                              dst |-> VertexBufferHandle])
                 ELSE transfer_queue
  /\ UNCHANGED <<frame_vars, _swapchain, _swapchain_images, _swapchain_image_views,
                 _swapchain_framebuffers, _swapchain_format, _swapchain_extent,
                 create_info, invalid_destroys, cleanup, surface, fb_size,
                 queue_families, indices, _enable_layers, context_vars>>

\* the transfer queue executes the oldest pending copy: the destination gets what the
\* source holds, or anything when the source was destroyed
gpu_transfer ==
  /\ transfer_queue # <<>>
  /\ LET copy == Head(transfer_queue)
     IN  buffer_data' = [buffer_data EXCEPT
                           ![copy.dst] = IF copy.src \in live THEN buffer_data[copy.src]
                                         ELSE "undefined"]
  /\ transfer_queue' = Tail(transfer_queue)
  /\ UNCHANGED <<phase, frame_vars, swapchain_vars, call, log, surface, fb_size,
                 queue_families, indices, _enable_layers, context_vars>>

\* create_vertex_buffer() from the return of vkQueueWaitIdle to its end
create_vertex_buffer ==
  /\ phase = "wait_transfer"
  /\ QueueWaitIdle(transfer_queue)
  /\ phase' = "vertex_buffer_created"
  /\ call' = [call EXCEPT !.outcome = "returned"]
  /\ log' = log \o <<EvH("vkDestroyBuffer", StagingBufferHandle),
                     EvH("vkFreeMemory", StagingMemoryHandle)>>
  /\ live' = live \ {StagingBufferHandle, StagingMemoryHandle}
  /\ buffer_data' = [buffer_data EXCEPT ![StagingBufferHandle] = "none"]
  /\ UNCHANGED <<frame_vars, _swapchain, _swapchain_images, _swapchain_image_views,
                 _swapchain_framebuffers, _swapchain_format, _swapchain_extent,
                 create_info, invalid_destroys, cleanup, transfer_queue, surface, fb_size,
                 queue_families, indices, _enable_layers, context_vars>>

\* the objects create_sync_objects creates, in order
SyncObjectsInOrder ==
  [i \in 1 .. (3 * MAX_FRAMES_IN_FLIGHT) |->
     CASE i % 3 = 1 -> ImageAvailSemaphore((i - 1) \div 3)
       [] i % 3 = 2 -> RenderFinishSemaphore((i - 1) \div 3)
       [] OTHER     -> FenceHandle((i - 1) \div 3)]

\* create_sync_objects(): the driver accepts the first `made` creation calls
create_sync_objects ==
  /\ phase = "vertex_buffer_created"
  /\ \E made \in 0 .. Len(SyncObjectsInOrder) :
       /\ live' = live \cup {SyncObjectsInOrder[i] : i \in 1 .. made}
       /\ log' = [i \in 1 .. Min(made + 1, Len(SyncObjectsInOrder)) |->
                    IF SyncObjectsInOrder[i][1] = "fence" THEN Ev("vkCreateFence")
                    ELSE Ev("vkCreateSemaphore")]
       /\ phase' = IF made = Len(SyncObjectsInOrder) THEN "ready" ELSE "failed"
       /\ call' = [Called("create_sync_objects") EXCEPT
                     !.outcome = IF made = Len(SyncObjectsInOrder) THEN "returned"
                                 ELSE "threw"]
  /\ UNCHANGED <<frame_vars, _swapchain, _swapchain_images, _swapchain_image_views,
                 _swapchain_framebuffers, _swapchain_format, _swapchain_extent,
                 create_info, invalid_destroys, cleanup, env_vars>>

\* the context after every initialisation step before create_vertex_buffer and
\* create_sync_objects: the swapchain, the pipeline and the command buffers exist
InitBuffers ==
  /\ phase = "commandbuffers_created"
  /\ _curr_frame = 0
  /\ _framebuffer_resized = FALSE
  /\ _in_flight_fences = [s \in Slots |-> TRUE]
  /\ graphics_queue = <<>>
  /\ surface \in LoopSurfaces
  /\ fb_size = Extent(800, 600)
  /\ create_info = SwapchainRequest(surface, fb_size)
  /\ _swapchain_format = create_info.imageFormat
  /\ _swapchain_extent = create_info.imageExtent
  /\ _swapchain = SwapchainHandle(1)
  /\ _swapchain_images = [i \in 1 .. create_info.minImageCount |-> ImageHandle(1, i - 1)]
  /\ _swapchain_image_views =
       [i \in 1 .. create_info.minImageCount |-> ImageViewHandle(1, i - 1)]
  /\ _swapchain_framebuffers =
       [i \in 1 .. create_info.minImageCount |-> FramebufferHandle(1, i - 1)]
  /\ live = ({_swapchain} \cup Range(_swapchain_images) \cup Range(_swapchain_image_views)
               \cup Range(_swapchain_framebuffers) \cup DeviceObjects)
              \ ({VertexBufferHandle, VertexMemoryHandle} \cup SyncObjects)
  /\ semaphores = {}
  /\ present_queue = <<>>
  /\ presented_early = {}
  /\ transfer_queue = <<>>
  /\ buffer_data = NoBuffers
  /\ invalid_destroys = {}
  /\ cleanup = [by |-> "none", pending |-> 0]
  /\ idle_waited = FALSE
  /\ recreations = 0
  /\ call = NoCall
  /\ log = <<>>
  /\ queue_families = <<[graphics |-> TRUE, transfer |-> TRUE, present |-> TRUE]>>
  /\ indices = _find_queue_families(queue_families)
  /\ _enable_layers = FALSE
  /\ platform = DefaultPlatform
  /\ _instance = InstanceHandle
  /\ _messenger = Indeterminate
  /\ _surface = SurfaceHandle
  /\ _physical_device = PhysicalDeviceHandle(0)

NextBuffers ==
  \/ create_vertex_buffer_call
  \/ gpu_transfer
  \/ create_vertex_buffer
  \/ create_sync_objects
  \/ Next

SpecBuffers == InitBuffers /\ [][NextBuffers]_vars

(***************************************************************************)
(* The frame loop with a GPU that completes what is submitted to it, and a  *)
(* host thread that runs on when the wait it blocks in returns             *)
(***************************************************************************)
SpecLive == Spec /\ WF_vars(gpu_complete) /\ WF_vars(draw_frame)

(***************************************************************************)
(* Properties                                                              *)
(***************************************************************************)
LastName(events) == IF events = <<>> THEN "none" ELSE events[Len(events)][1]

CreateCalls == {"vkCreateSwapchainKHR", "vkCreateImageView", "vkCreateFramebuffer"}

\* the call ended normally, or in the failure of a creation call the driver rejected
ReturnedUnlessCreationRejected ==
  \/ call.outcome = "returned"
  \/ call.outcome = "threw" /\ LastName(log) \in CreateCalls

\* the members hold a complete swapchain that exists in the driver
SwapchainRebuilt ==
  /\ MemberHandles \subseteq live
  /\ Len(_swapchain_image_views) = Len(_swapchain_images)
  /\ Len(_swapchain_framebuffers) = Len(_swapchain_images)
  /\ Count(log, "vkCreateSwapchainKHR") = 1
  /\ Count(log, "vkCreateImageView") = Len(_swapchain_images)
  /\ Count(log, "vkCreateFramebuffer") = Len(_swapchain_images)

\* the submissions whose fence is not signaled yet
InFlight == {i \in 1 .. Len(graphics_queue) : ~_in_flight_fences[graphics_queue[i].slot]}

\* C1: at any time at most MAX_FRAMES_IN_FLIGHT command buffers are submitted with
\* the fence of their slot not yet signaled, and no slot has two of them pending.
C1_FramesInFlightBound ==
  /\ Cardinality(InFlight) <= MAX_FRAMES_IN_FLIGHT
  /\ Len(graphics_queue) <= MAX_FRAMES_IN_FLIGHT
  /\ \A i, j \in 1 .. Len(graphics_queue) :
       graphics_queue[i].slot = graphics_queue[j].slot => i = j

C1_Witness == Cardinality(InFlight) = MAX_FRAMES_IN_FLIGHT

\* C2: a draw_frame call whose acquire reports out-of-date waits for the device to be
\* idle, destroys and rebuilds the swapchain, records and submits nothing, leaves
\* _curr_frame as it was and returns normally (a creation call the driver rejects
\* during the rebuild being the one failure it can end in).
C2_AcquireOutOfDateSkipsFrame ==
  (call.op = "draw_frame" /\ call.acquire = VK_ERROR_OUT_OF_DATE_KHR) =>
    /\ Count(log, "vkDeviceWaitIdle") = 1
    /\ Count(log, "_recreate_swapchain") = 1
    /\ AllBefore(log, "vkDeviceWaitIdle", "vkDestroyFramebuffer")
    /\ AllBefore(log, "vkDeviceWaitIdle", "vkDestroyImageView")
    /\ AllBefore(log, "vkDeviceWaitIdle", "vkDestroySwapchainKHR")
    /\ Count(log, "vkDestroySwapchainKHR") = 1
    /\ graphics_queue = <<>>
    /\ ~Has(log, "vkBeginCommandBuffer")
    /\ ~Has(log, "vkCmdDraw")
    /\ ~Has(log, "vkQueueSubmit")
    /\ ~Has(log, "vkQueuePresentKHR")
    /\ call.submit = "none"
    /\ _curr_frame = call.frame_before
    /\ ReturnedUnlessCreationRejected
    /\ call.outcome = "returned" => SwapchainRebuilt

C2_Witness ==
  /\ call.op = "draw_frame"
  /\ call.acquire = VK_ERROR_OUT_OF_DATE_KHR
  /\ call.outcome = "returned"
  /\ call.frame_before = 1
  /\ _swapchain # SwapchainHandle(1)

\* C3: a draw_frame call whose acquire reports out-of-date does not reset the fence of
\* its slot: when it returns the fence is signaled, as it was after the wait.
C3_NoFenceResetOnSkip ==
  (call.op = "draw_frame" /\ call.acquire = VK_ERROR_OUT_OF_DATE_KHR) =>
    /\ ~Has(log, "vkResetFences")
    /\ _in_flight_fences[call.frame_before]

\* C4: a draw_frame call that reaches the present step runs _recreate_swapchain exactly
\* once, with the resize flag false afterwards, when the present result is out-of-date
\* or suboptimal or the resize flag was set, and it returns normally (a creation call
\* the driver rejects during the rebuild being the one failure it can end in); when the
\* present result is success and the flag was not set it recreates nothing.
C4_PresentRecreatesOnce ==
  (call.op = "draw_frame" /\ call.present # "none") =>
    IF \/ call.present \in {VK_ERROR_OUT_OF_DATE_KHR, VK_SUBOPTIMAL_KHR}
       \/ call.resized_before
    THEN /\ Count(log, "_recreate_swapchain") = 1
         /\ Count(log, "vkDestroySwapchainKHR") = 1
         /\ ~_framebuffer_resized
         /\ ReturnedUnlessCreationRejected
         /\ call.outcome = "returned" => SwapchainRebuilt
    ELSE call.present = VK_SUCCESS =>
           /\ Count(log, "_recreate_swapchain") = 0
           /\ ~Has(log, "vkDestroySwapchainKHR")
           /\ ~Has(log, "vkCreateSwapchainKHR")
           /\ ~_framebuffer_resized
           /\ call.outcome = "returned"

C4_Witness ==
  /\ call.op = "draw_frame"
  /\ call.present = VK_SUCCESS
  /\ call.resized_before
  /\ call.outcome = "returned"
  /\ Count(log, "_recreate_swapchain") = 1
  /\ ~_framebuffer_resized

\* C5 as stated: after a draw_frame call that submitted a frame the slot index is
\* (current + 1) mod 2, and after a call that submitted nothing it is unchanged.
C5_AdvanceAfterEverySubmit ==
  (call.op = "draw_frame" /\ call.outcome # "waiting") =>
    _curr_frame = IF call.submit = VK_SUCCESS
                  THEN (call.frame_before + 1) % MAX_FRAMES_IN_FLIGHT
                  ELSE call.frame_before

\* C5 amended: after a draw_frame call that submitted a frame and returned normally
\* the slot index is (current + 1) mod 2, also when the present step recreated the
\* swapchain; after a call that submitted nothing, or that ended in a fatal error after
\* submitting, it is unchanged.
C5_AdvanceAfterCompletedFrame ==
  (call.op = "draw_frame" /\ call.outcome # "waiting") =>
    /\ _curr_frame \in Slots
    /\ _curr_frame = IF call.submit = VK_SUCCESS /\ call.outcome = "returned"
                     THEN (call.frame_before + 1) % MAX_FRAMES_IN_FLIGHT
                     ELSE call.frame_before

C5_Witness ==
  /\ call.op = "draw_frame"
  /\ call.submit = VK_SUCCESS
  /\ call.present = VK_ERROR_OUT_OF_DATE_KHR
  /\ call.outcome = "returned"
  /\ call.frame_before = 1
  /\ _curr_frame = 0

\* C6 as stated: whenever the swapchain objects are destroyed, by _recreate_swapchain
\* or by destroy(), no submitted frame is still in flight.
C6_DestroyedOnlyWhenIdle == cleanup.pending = 0

\* C6 amended: _recreate_swapchain destroys the swapchain objects only when no
\* submitted frame is in flight, and so does destroy() when the host called
\* wait_idle() before it with no draw_frame call in between.
C6_DestroyedIdleAfterWait ==
  /\ cleanup.by = "_recreate_swapchain" => cleanup.pending = 0
  /\ (cleanup.by = "destroy" /\ idle_waited) => cleanup.pending = 0

C6_Witness ==
  /\ cleanup.by = "destroy"
  /\ idle_waited
  /\ _curr_frame = 1
  /\ ~Has(log, "vkDeviceWaitIdle")

\* whether the family at index i (from 0) qualifies for a role
Qualifies(role, i) ==
  CASE role = "graphics" -> queue_families[i + 1].graphics
    [] role = "transfer" -> queue_families[i + 1].transfer
    [] OTHER             -> queue_families[i + 1].present

Roles == {"graphics", "transfer", "present"}

Resolved(role) ==
  CASE role = "graphics" -> indices.graphics_family
    [] role = "transfer" -> indices.transfer_family
    [] OTHER             -> indices.present_family

FamilyIndices == 0 .. (Len(queue_families) - 1)

\* the lowest-index family that qualifies for the role, if any
FirstQualifying(role) ==
  IF \E i \in FamilyIndices : Qualifies(role, i)
  THEN Some(CHOOSE i \in FamilyIndices :
              Qualifies(role, i) /\ \A j \in 0 .. (i - 1) : ~Qualifies(role, j))
  ELSE Nullopt

\* the indices at which every role has a qualifying family at or before it
CompleteAt == {k \in FamilyIndices : \A r \in Roles : \E i \in 0 .. k : Qualifies(r, i)}

\* the last index the scan looks at
LastScanned ==
  IF CompleteAt = {} THEN Len(queue_families) - 1
  ELSE CHOOSE k \in CompleteAt : \A m \in CompleteAt : k <= m

\* the highest-index family among the scanned ones that qualifies for the role, if any
LastQualifyingScanned(role) ==
  IF \E i \in 0 .. LastScanned : Qualifies(role, i)
  THEN Some(CHOOSE i \in 0 .. LastScanned :
              Qualifies(role, i) /\ \A j \in (i + 1) .. LastScanned : ~Qualifies(role, j))
  ELSE Nullopt

\* C7 as stated: _find_queue_families resolves every role to the lowest-index family
\* that qualifies for it.
C7_FirstMatchWins ==
  call.op = "_find_queue_families" => \A r \in Roles : Resolved(r) = FirstQualifying(r)

\* C7 amended: _find_queue_families scans the families in index order up to the first
\* index at which all three roles are resolved (to the end when there is none) and
\* resolves every role to the highest-index scanned family that qualifies for it; the
\* result is a function of the list, so the same on every call.
C7_LastMatchBeforeCompleteWins ==
  call.op = "_find_queue_families" =>
    \A r \in Roles : Resolved(r) = LastQualifyingScanned(r)

C7_Witness ==
  /\ call.op = "_find_queue_families"
  /\ Len(queue_families) = 3
  /\ is_complete(indices)
  /\ indices.graphics_family = Some(1)
  /\ FirstQualifying("graphics") = Some(0)
  /\ Qualifies("graphics", 2)

\* C8: for maxImageCount = 0 or maxImageCount >= minImageCount the image count that
\* create_swapchain requests is min(minImageCount + 1, maxImageCount) when
\* maxImageCount > 0 and minImageCount + 1 when maxImageCount = 0.
C8_ImageCountClamp ==
  call.op = "create_swapchain" =>
    LET caps == surface.capabilities
    IN  create_info.minImageCount =
          IF caps.maxImageCount > 0
          THEN Min(caps.minImageCount + 1, caps.maxImageCount)
          ELSE caps.minImageCount + 1

C8_Witness ==
  /\ call.op = "create_swapchain"
  /\ surface.capabilities.minImageCount = 2
  /\ surface.capabilities.maxImageCount = 2
  /\ create_info.minImageCount = 2
  /\ Len(_swapchain_images) = 2

\* C9 as stated: the image count that create_swapchain requests is at least
\* minImageCount + 1.
C9_AtLeastMinPlusOne ==
  call.op = "create_swapchain" =>
    create_info.minImageCount >= surface.capabilities.minImageCount + 1

\* C9 amended: the image count that create_swapchain requests is at least
\* minImageCount, and at least minImageCount + 1 unless maxImageCount = minImageCount,
\* where it is minImageCount.
C9_AtLeastMinPlusOneUnlessCapped ==
  call.op = "create_swapchain" =>
    LET caps == surface.capabilities
    IN  /\ create_info.minImageCount >= caps.minImageCount
        /\ caps.maxImageCount # caps.minImageCount =>
             create_info.minImageCount >= caps.minImageCount + 1
        /\ caps.maxImageCount = caps.minImageCount =>
             create_info.minImageCount = caps.minImageCount

C9_Witness ==
  /\ call.op = "create_swapchain"
  /\ surface.capabilities.minImageCount = 3
  /\ surface.capabilities.maxImageCount = 0
  /\ create_info.minImageCount = 4

\* C10: with an undefined current extent the extent create_swapchain chooses is the
\* framebuffer width clamped into [minImageExtent.width, maxImageExtent.width] and
\* the framebuffer height clamped into [minImageExtent.height, maxImageExtent.height].
C10_ExtentClampedPerAxis ==
  (call.op = "create_swapchain" /\ surface.capabilities.currentExtent = UndefinedExtent) =>
    LET caps == surface.capabilities
    IN  /\ _swapchain_extent.width =
             Clamp(fb_size.width, caps.minImageExtent.width, caps.maxImageExtent.width)
        /\ _swapchain_extent.height =
             Clamp(fb_size.height, caps.minImageExtent.height, caps.maxImageExtent.height)

\* C11: when the surface reports a defined current extent, the extent create_swapchain
\* stores and requests is that current extent, whatever size the framebuffer-size
\* callback reports.
C11_DefinedExtentTakenAsIs ==
  (call.op = "create_swapchain" /\ surface.capabilities.currentExtent # UndefinedExtent) =>
    /\ _swapchain_extent = surface.capabilities.currentExtent
    /\ create_info.imageExtent = surface.capabilities.currentExtent

C11_Witness ==
  /\ call.op = "create_swapchain"
  /\ call.outcome = "returned"
  /\ surface.capabilities.currentExtent = Extent(2, 3)
  /\ surface.capabilities.minImageExtent = Extent(3, 3)
  /\ fb_size = Extent(3, 1)
  /\ _swapchain_extent = Extent(2, 3)

\* the preferred surface format
IsPreferredFormat(f) ==
  f.format = VK_FORMAT_B8G8R8A8_SRGB /\ f.colorSpace = VK_COLOR_SPACE_SRGB_NONLINEAR_KHR

\* C12: for every non-empty list of surface formats create_swapchain chooses the
\* B8G8R8A8_SRGB / SRGB_NONLINEAR format when it is anywhere in the list and the first
\* format of the list otherwise; for the surface of scenario A it requests that format,
\* the extent 800x600 and 3 images.
C12_PreferredFormatElseFirst ==
  call.op = "create_swapchain" =>
    /\ IF \E f \in Range(surface.formats) : IsPreferredFormat(f)
       THEN /\ create_info.imageFormat = VK_FORMAT_B8G8R8A8_SRGB
            /\ create_info.imageColorSpace = VK_COLOR_SPACE_SRGB_NONLINEAR_KHR
       ELSE /\ create_info.imageFormat = surface.formats[1].format
            /\ create_info.imageColorSpace = surface.formats[1].colorSpace
    /\ _swapchain_format = create_info.imageFormat
    /\ (surface = ScenarioA /\ fb_size = Extent(800, 600)) =>
         /\ create_info.imageFormat = VK_FORMAT_B8G8R8A8_SRGB
         /\ create_info.imageColorSpace = VK_COLOR_SPACE_SRGB_NONLINEAR_KHR
         /\ create_info.imageExtent = Extent(800, 600)
         /\ create_info.minImageCount = 3

C12_Witness ==
  /\ call.op = "create_swapchain"
  /\ call.outcome = "returned"
  /\ Len(surface.formats) = 2
  /\ ~IsPreferredFormat(surface.formats[1])
  /\ IsPreferredFormat(surface.formats[2])
  /\ _swapchain_format = VK_FORMAT_B8G8R8A8_SRGB
  /\ create_info.imageColorSpace = VK_COLOR_SPACE_SRGB_NONLINEAR_KHR

\* C13: for every list of present modes create_swapchain requests MAILBOX when MAILBOX
\* is in the list and FIFO otherwise.
C13_MailboxElseFifo ==
  call.op = "create_swapchain" =>
    create_info.presentMode =
      IF VK_PRESENT_MODE_MAILBOX_KHR \in Range(surface.present_modes)
      THEN VK_PRESENT_MODE_MAILBOX_KHR
      ELSE VK_PRESENT_MODE_FIFO_KHR

C13_Witness ==
  /\ call.op = "create_swapchain"
  /\ surface.present_modes = <<VK_PRESENT_MODE_FIFO_KHR, VK_PRESENT_MODE_MAILBOX_KHR>>
  /\ create_info.presentMode = VK_PRESENT_MODE_MAILBOX_KHR

\* C14: a _recreate_swapchain that follows another one, with no frame submitted and no
\* change of the surface support or the framebuffer size in between, resolves the same
\* format, extent and image count as the one before it.
C14_RecreationIdempotent ==
  [][(recreations >= 1 /\ recreations' = 2) =>
       /\ create_info' = create_info
       /\ _swapchain_format' = _swapchain_format
       /\ _swapchain_extent' = _swapchain_extent
       /\ create_info'.minImageCount = create_info.minImageCount
       /\ Len(_swapchain_images') = Len(_swapchain_images)]_vars

C14_Witness ==
  /\ recreations = 2
  /\ call.op = "draw_frame"
  /\ call.acquire = VK_ERROR_OUT_OF_DATE_KHR
  /\ call.outcome = "returned"
  /\ Count(log, "vkCreateSwapchainKHR") = 1
  /\ surface.capabilities.currentExtent = UndefinedExtent

\* the calls that end a draw_frame call in a fatal error after a suboptimal or
\* successful acquire
FrameCalls ==
  {"vkBeginCommandBuffer", "vkEndCommandBuffer", "vkQueueSubmit", "vkQueuePresentKHR"}

\* C19: in draw_frame an acquire result other than success, suboptimal and out-of-date
\* is a fatal error with no swapchain recreation, and so is such a present result when
\* the resize flag is not set; a suboptimal acquire is handled like a successful one:
\* the frame is recorded, submitted and presented.
C19_UnexpectedResultsAreFatal ==
  (call.op = "draw_frame" /\ call.outcome # "waiting") =>
    /\ call.acquire = VK_ERROR_DEVICE_LOST =>
         /\ call.outcome = "threw"
         /\ phase = "failed"
         /\ ~Has(log, "_recreate_swapchain")
         /\ ~Has(log, "vkDestroySwapchainKHR")
         /\ ~Has(log, "vkQueueSubmit")
         /\ LastName(log) = "vkAcquireNextImageKHR"
    /\ (call.present = VK_ERROR_DEVICE_LOST /\ ~call.resized_before) =>
         /\ call.outcome = "threw"
         /\ phase = "failed"
         /\ ~Has(log, "_recreate_swapchain")
         /\ ~Has(log, "vkDestroySwapchainKHR")
         /\ LastName(log) = "vkQueuePresentKHR"
    /\ call.acquire = VK_SUBOPTIMAL_KHR =>
         /\ Has(log, "vkBeginCommandBuffer")
         /\ AllBefore(log, "vkQueuePresentKHR", "_recreate_swapchain")
         /\ call.outcome = "returned" =>
              /\ Count(log, "vkCmdDraw") = 1
              /\ Count(log, "vkQueueSubmit") = 1
              /\ Count(log, "vkQueuePresentKHR") = 1
              /\ call.submit = VK_SUCCESS
              /\ call.present # "none"
         /\ call.outcome = "threw" => LastName(log) \in FrameCalls \cup CreateCalls

C19_Witness ==
  /\ call.op = "draw_frame"
  /\ call.acquire = VK_SUBOPTIMAL_KHR
  /\ call.present = VK_SUCCESS
  /\ call.outcome = "returned"
  /\ ~Has(log, "_recreate_swapchain")
  /\ Len(graphics_queue) = 2

\* the calls of destroy() that release an object owned by the logical device
DeviceOwned ==
  {"vkDestroyFramebuffer", "vkDestroyImageView", "vkDestroySwapchainKHR",
   "vkDestroyBuffer", "vkFreeMemory", "vkDestroySemaphore", "vkDestroyFence",
   "vkDestroyCommandPool", "vkDestroyPipeline", "vkDestroyPipelineLayout",
   "vkDestroyRenderPass"}

\* C20: destroy() releases every resource before what it depends on: framebuffers
\* before image views before the swapchain, framebuffers and pipeline before the render
\* pass, every device-owned object before the logical device, the device, the
\* diagnostic sink and the surface before the instance, which is destroyed last.
C20_ReverseDependencyOrder ==
  call.op = "destroy" =>
    /\ AllBefore(log, "vkDestroyFramebuffer", "vkDestroyImageView")
    /\ AllBefore(log, "vkDestroyImageView", "vkDestroySwapchainKHR")
    /\ AllBefore(log, "vkDestroyFramebuffer", "vkDestroyRenderPass")
    /\ AllBefore(log, "vkDestroyPipeline", "vkDestroyRenderPass")
    /\ AllBefore(log, "vkDestroyPipeline", "vkDestroyPipelineLayout")
    /\ AllBefore(log, "vkDestroyBuffer", "vkFreeMemory")
    /\ \A name \in DeviceOwned :
         Has(log, name) /\ AllBefore(log, name, "vkDestroyDevice")
    /\ Count(log, "vkDestroyFramebuffer") = Len(_swapchain_framebuffers)
    /\ Count(log, "vkDestroyImageView") = Len(_swapchain_image_views)
    /\ \A name \in {"vkDestroySwapchainKHR", "vkDestroyRenderPass", "vkDestroyDevice",
                     "vkDestroySurfaceKHR", "vkDestroyInstance"} : Count(log, name) = 1
    /\ Count(log, "DestroyDebugUtilsMessengerEXT") = IF _enable_layers THEN 1 ELSE 0
    /\ AllBefore(log, "vkDestroyDevice", "vkDestroyInstance")
    /\ AllBefore(log, "DestroyDebugUtilsMessengerEXT", "vkDestroyInstance")
    /\ AllBefore(log, "vkDestroySurfaceKHR", "vkDestroyInstance")
    /\ AllBefore(log, "vkDestroySwapchainKHR", "vkDestroySurfaceKHR")
    /\ LastName(log) = "vkDestroyInstance"

C20_Witness ==
  /\ call.op = "destroy"
  /\ phase = "destroyed"
  /\ _enable_layers
  /\ Has(log, "DestroyDebugUtilsMessengerEXT")
  /\ Count(log, "vkDestroyFramebuffer") = 3

Suitable(device) ==
  /\ \E i \in 1 .. Len(device.queue_families) : device.queue_families[i].graphics
  /\ \E i \in 1 .. Len(device.queue_families) : device.queue_families[i].present
  /\ \E i \in 1 .. Len(device.queue_families) : device.queue_families[i].transfer
  /\ VK_KHR_SWAPCHAIN_EXTENSION_NAME \in device.extensions
  /\ device.formats # <<>>
  /\ device.present_modes # <<>>

SuitableDevices == {i \in 1 .. Len(platform.devices) : Suitable(platform.devices[i])}

\* C16: when a device is suitable, pick_physical_device selects the first suitable
\* device in enumeration order, never a later one.
C16_FirstSuitableSelected ==
  (call.op = "pick_physical_device" /\ SuitableDevices # {}) =>
    /\ call.outcome = "returned"
    /\ \E i \in SuitableDevices :
         /\ \A j \in SuitableDevices : i <= j
         /\ _physical_device = PhysicalDeviceHandle(i - 1)

C16_Witness ==
  /\ call.op = "pick_physical_device"
  /\ call.outcome = "returned"
  /\ Len(platform.devices) = 2
  /\ SuitableDevices = {1, 2}
  /\ Len(platform.devices[1].queue_families) = 2
  /\ _physical_device = PhysicalDeviceHandle(0)

\* C17: pick_physical_device ends in a fatal error when no device is enumerated or none
\* is suitable, and when it returns normally the selected device is a suitable one,
\* whatever _physical_device held before the call.
C17_FailsWithoutSuitableDevice ==
  call.op = "pick_physical_device" =>
    /\ SuitableDevices = {} => call.outcome = "threw"
    /\ call.outcome = "returned" =>
         \E i \in SuitableDevices : _physical_device = PhysicalDeviceHandle(i - 1)

\* create_instance finds a requested layer or a required extension missing
InstancePrecheckFails ==
  \/ platform.enable_layers /\ \E layer \in validation_layers : layer \notin platform.layers
  \/ \E extname \in Range(platform.req_ext) : extname \notin platform.extensions

\* C18: create_instance fails before any vkCreateInstance call when diagnostics are
\* enabled and a validation layer is unavailable or when a required extension is
\* unavailable; otherwise it calls vkCreateInstance once and, the instance created,
\* attaches the debug messenger exactly when diagnostics are enabled (a creation call
\* the driver rejects being the one failure it can then end in).
C18_InstancePrechecks ==
  call.op = "create_instance" =>
    IF InstancePrecheckFails
    THEN /\ call.outcome = "threw"
         /\ ~Has(log, "vkCreateInstance")
         /\ ~Has(log, "CreateDebugUtilsMessengerEXT")
         /\ _instance = Indeterminate
         /\ _messenger = Indeterminate
    ELSE /\ Count(log, "vkCreateInstance") = 1
         /\ _enable_layers = platform.enable_layers
         /\ platform.vkCreateInstance = VK_SUCCESS =>
              /\ _instance = InstanceHandle
              /\ Count(log, "CreateDebugUtilsMessengerEXT") =
                   IF platform.enable_layers THEN 1 ELSE 0
         /\ call.outcome = "returned" =>
              /\ _instance = InstanceHandle
              /\ _messenger = MessengerHandle <=> platform.enable_layers
         /\ call.outcome = "threw" =>
              /\ LastName(log) \in {"vkCreateInstance", "CreateDebugUtilsMessengerEXT"}
              /\ \/ platform.vkCreateInstance # VK_SUCCESS
                 \/ platform.CreateDebugUtilsMessengerEXT # VK_SUCCESS

C18_Witness ==
  /\ call.op = "create_instance"
  /\ call.outcome = "returned"
  /\ platform.enable_layers
  /\ Len(platform.req_ext) = 2
  /\ platform.req_ext[1] # platform.req_ext[2]
  /\ _messenger = MessengerHandle
  /\ LastName(log) = "CreateDebugUtilsMessengerEXT"

\* C21: draw_frame resets and re-records the command buffer of a slot only after the
\* fence of that slot was observed signaled for its previous use: at that time no
\* submission of the same command buffer is still executing on the GPU.
C21_RecordOnlyAfterFence ==
  [][(phase = "wait_fence" /\ Has(log', "vkResetCommandBuffer")) =>
       /\ _in_flight_fences[_curr_frame]
       /\ \A i \in 1 .. Len(graphics_queue) : graphics_queue[i].slot # _curr_frame
       /\ AllBefore(log', "vkWaitForFences", "vkResetCommandBuffer")
       /\ AllBefore(log', "vkResetCommandBuffer", "vkBeginCommandBuffer")]_vars

C21_Witness ==
  /\ call.op = "draw_frame"
  /\ call.outcome = "returned"
  /\ call.frame_before = 0
  /\ Has(log, "vkResetCommandBuffer")
  /\ Len(graphics_queue) = 2
  /\ graphics_queue[1].slot = 1
  /\ graphics_queue[2].slot = 0

\* the swapchain-scope handles that exist in the driver
SwapchainScope == {h \in live : h[1] \in {"swapchain", "image", "image_view", "framebuffer"}}

\* C23: _recreate_swapchain waits until the device is idle, then destroys all
\* framebuffers, all image views and the swapchain handle, then creates the swapchain,
\* the image views and the framebuffers, in this order; nothing of the new swapchain is
\* created before everything of the previous one is destroyed.
C23_RecreateOrder ==
  Has(log, "_recreate_swapchain") =>
    /\ Count(log, "_recreate_swapchain") = 1
    /\ Count(log, "vkDeviceWaitIdle") = 1
    /\ Count(log, "vkDestroySwapchainKHR") = 1
    /\ Count(log, "vkCreateSwapchainKHR") = 1
    /\ AllBefore(log, "_recreate_swapchain", "vkDeviceWaitIdle")
    /\ AllBefore(log, "vkDeviceWaitIdle", "vkDestroyFramebuffer")
    /\ AllBefore(log, "vkDestroyFramebuffer", "vkDestroyImageView")
    /\ AllBefore(log, "vkDestroyImageView", "vkDestroySwapchainKHR")
    /\ AllBefore(log, "vkDestroySwapchainKHR", "vkCreateSwapchainKHR")
    /\ AllBefore(log, "vkCreateSwapchainKHR", "vkCreateImageView")
    /\ AllBefore(log, "vkCreateImageView", "vkCreateFramebuffer")
    /\ \A d \in {"vkDestroyFramebuffer", "vkDestroyImageView", "vkDestroySwapchainKHR"},
          c \in CreateCalls : AllBefore(log, d, c)
    /\ Count(log, "vkDestroyFramebuffer") = Count(log, "vkDestroyImageView")
    /\ call.outcome = "returned" =>
         /\ SwapchainRebuilt
         /\ SwapchainScope = MemberHandles

C23_Witness ==
  /\ call.op = "draw_frame"
  /\ call.present = VK_SUBOPTIMAL_KHR
  /\ call.outcome = "returned"
  /\ Count(log, "vkDestroyFramebuffer") = 3
  /\ Count(log, "vkCreateFramebuffer") = 3
  /\ _swapchain = SwapchainHandle(2)

\* C27: no swapchain-scope handle (framebuffer, image view, swapchain) is handed to its
\* vkDestroy* call when it was destroyed before, whatever the sequence of operations.
C27_NoDoubleDestroy == invalid_destroys = {}

\* C28: the resize flag set by flag_dirty_framebuffer is cleared only by a draw_frame
\* call that reaches the present step, and that call runs _recreate_swapchain; a call
\* that returns early at an out-of-date acquire leaves the flag as it was; a call that
\* reaches the present step with the flag set clears it and recreates the swapchain.
C28_ResizeFlagNotLost ==
  [][/\ (_framebuffer_resized /\ ~_framebuffer_resized') =>
          /\ call'.op = "draw_frame"
          /\ call'.present # "none"
          /\ Count(log', "_recreate_swapchain") = 1
          /\ AllBefore(log', "vkQueuePresentKHR", "_recreate_swapchain")
     /\ (phase = "wait_fence" /\ call'.acquire = VK_ERROR_OUT_OF_DATE_KHR) =>
          _framebuffer_resized' = _framebuffer_resized
     /\ (phase = "wait_fence" /\ call'.present # "none" /\ _framebuffer_resized) =>
          /\ ~_framebuffer_resized'
          /\ Count(log', "_recreate_swapchain") = 1
     /\ (~_framebuffer_resized /\ _framebuffer_resized') =>
          call'.op = "flag_dirty_framebuffer"]_vars

C28_Witness ==
  /\ call.op = "draw_frame"
  /\ call.acquire = VK_ERROR_OUT_OF_DATE_KHR
  /\ call.outcome = "returned"
  /\ call.resized_before
  /\ _framebuffer_resized
  /\ call.frame_before = 1

\* C29: _find_queue_families returns complete indices exactly when each of the three
\* roles has a qualifying family in the list, and every index it returns is a position
\* of the list whose family qualifies for the role.
C29_CompleteIffAllRolesQualify ==
  call.op = "_find_queue_families" =>
    /\ (\A r \in Roles : Resolved(r).has_value)
         <=> (\A r \in Roles : \E i \in FamilyIndices : Qualifies(r, i))
    /\ \A r \in Roles :
         Resolved(r).has_value =>
           /\ Resolved(r).value \in FamilyIndices
           /\ Qualifies(r, Resolved(r).value)

C29_Witness ==
  /\ call.op = "_find_queue_families"
  /\ Len(queue_families) = 3
  /\ \A r \in Roles : Resolved(r).has_value
  /\ indices.graphics_family = Some(0)
  /\ indices.transfer_family = Some(1)
  /\ indices.present_family = Some(2)

\* the handle of the only call of that name in the log
HandleOf(events, name) == events[CHOOSE i \in 1 .. Len(events) : events[i][1] = name][2]

\* C30: after a completed create or recreate of the swapchain there is one image view
\* per image and one framebuffer per image view, all of them existing objects of the
\* current swapchain, and the slot index is below MAX_FRAMES_IN_FLIGHT; the frame a
\* draw_frame call records renders into the framebuffer at the index of the image it
\* acquired, an existing framebuffer of the swapchain the image was acquired from.
C30_FramebufferOfAcquiredImage ==
  /\ [](/\ _curr_frame \in Slots
        /\ phase \in {"ready", "wait_fence"} =>
             /\ Len(_swapchain_image_views) = Len(_swapchain_images)
             /\ Len(_swapchain_framebuffers) = Len(_swapchain_image_views)
             /\ MemberHandles \subseteq live
             /\ \A i \in 1 .. Len(_swapchain_images) :
                  /\ _swapchain_images[i] = ImageHandle(_swapchain[2], i - 1)
                  /\ _swapchain_image_views[i] = ImageViewHandle(_swapchain[2], i - 1)
                  /\ _swapchain_framebuffers[i] = FramebufferHandle(_swapchain[2], i - 1))
  /\ [][(phase = "wait_fence" /\ Has(log', "vkCmdBeginRenderPass")) =>
          LET image == HandleOf(log', "vkAcquireNextImageKHR")
              fb    == HandleOf(log', "vkCmdBeginRenderPass")
          IN  /\ Count(log', "vkCmdBeginRenderPass") = 1
              /\ fb \in live
              /\ \E i \in 1 .. Len(_swapchain_images) :
                   /\ _swapchain_images[i] = image
                   /\ _swapchain_framebuffers[i] = fb
                   /\ fb[2] = _swapchain[2]]_vars

C30_Witness ==
  /\ call.op = "draw_frame"
  /\ call.outcome = "returned"
  /\ call.acquire = VK_SUCCESS
  /\ _swapchain = SwapchainHandle(2)
  /\ Len(_swapchain_framebuffers) = 3
  /\ \E i \in 1 .. Len(log) : log[i] = EvH("vkCmdBeginRenderPass", FramebufferHandle(2, 2))
  /\ ~Has(log, "_recreate_swapchain")

\* C22: every submission of draw_frame waits on the image-available semaphore of its
\* slot, which the acquire of the same call signals, at the color-attachment-output
\* stage, and signals the render-finished semaphore and the fence of its slot when it
\* completes; the present request of the frame waits on that render-finished
\* semaphore; so no image is presented before its rendering has finished.
C22_AcquireRenderPresentOrder ==
  /\ presented_early = {}
  /\ \A i \in 1 .. Len(graphics_queue) :
       LET e == graphics_queue[i]
       IN  /\ e.submit.pWaitSemaphores = ImageAvailSemaphore(e.slot)
           /\ e.submit.pWaitDstStageMask = "VK_PIPELINE_STAGE_COLOR_ATTACHMENT_OUTPUT_BIT"
           /\ e.submit.pCommandBuffers = CommandBufferHandle(e.slot)
           /\ e.submit.pSignalSemaphores = RenderFinishSemaphore(e.slot)
           /\ e.submit.fence = FenceHandle(e.slot)
           /\ e.submit.pWaitSemaphores \in semaphores
           /\ e.submit.pSignalSemaphores \notin semaphores
           /\ ~_in_flight_fences[e.slot]
  /\ Len(present_queue) = Len(graphics_queue)
  /\ \A j \in 1 .. Len(present_queue) :
       LET p == present_queue[j]
           e == graphics_queue[j]
       IN  /\ p.frame = e.slot
           /\ p.wait = e.submit.pSignalSemaphores
           /\ p.image[2] = e.framebuffer[2]
           /\ p.image[3] = e.framebuffer[3]
  /\ AllBefore(log, "vkAcquireNextImageKHR", "vkQueueSubmit")
  /\ AllBefore(log, "vkQueueSubmit", "vkQueuePresentKHR")

C22_Witness ==
  /\ call.op = "draw_frame"
  /\ call.present = VK_SUCCESS
  /\ call.outcome = "returned"
  /\ call.frame_before = 1
  /\ ~Has(log, "_recreate_swapchain")
  /\ Len(graphics_queue) = 1
  /\ graphics_queue[1].slot = 1
  /\ present_queue[1].wait = RenderFinishSemaphore(1)
  /\ semaphores = {ImageAvailSemaphore(1)}

\* the driver calls that create or release an object that is not of swapchain scope
DeviceObjectCalls ==
  {"vkCreateRenderPass", "vkDestroyRenderPass", "vkCreateGraphicsPipelines",
   "vkDestroyPipeline", "vkCreatePipelineLayout", "vkDestroyPipelineLayout",
   "vkCreateBuffer", "vkDestroyBuffer", "vkAllocateMemory", "vkFreeMemory",
   "vkAllocateCommandBuffers", "vkFreeCommandBuffers", "vkCreateCommandPool",
   "vkDestroyCommandPool", "vkCreateSemaphore", "vkDestroySemaphore", "vkCreateFence",
   "vkDestroyFence"}

\* C24: _recreate_swapchain leaves the render pass, the graphics pipeline and its
\* layout, the vertex buffer, the command buffers and the per-slot semaphores and
\* fences as they are, with the data of the vertex buffer, and it does not write the
\* resize flag or the slot index: of the members it replaces only the swapchain, its
\* images, image views and framebuffers and the stored format and extent.
C24_RecreateTouchesSwapchainOnly ==
  [][(phase = "wait_fence" /\ Has(log', "_recreate_swapchain")) =>
       /\ live' \cap DeviceObjects = live \cap DeviceObjects
       /\ DeviceObjects \subseteq live'
       /\ buffer_data' = buffer_data
       /\ \A name \in DeviceObjectCalls : ~Has(log', name)
       /\ call'.present = "none" =>
            /\ _framebuffer_resized' = _framebuffer_resized
            /\ _curr_frame' = _curr_frame
       /\ call'.present # "none" =>
            /\ ~_framebuffer_resized'
            /\ _curr_frame' = IF call'.outcome = "returned" THEN NextFrame(_curr_frame)
                              ELSE _curr_frame
       /\ call'.outcome = "returned" =>
            /\ _swapchain' # _swapchain
            /\ Range(_swapchain_framebuffers') \cap Range(_swapchain_framebuffers) = {}
            /\ Range(_swapchain_image_views') \cap Range(_swapchain_image_views) = {}
            /\ _swapchain_extent' = create_info'.imageExtent
            /\ _swapchain_format' = create_info'.imageFormat]_vars

C24_Witness ==
  /\ call.op = "draw_frame"
  /\ call.acquire = VK_ERROR_OUT_OF_DATE_KHR
  /\ call.outcome = "returned"
  /\ _framebuffer_resized
  /\ _curr_frame = 1
  /\ _swapchain = SwapchainHandle(2)
  /\ _swapchain_extent = Extent(1024, 768)
  /\ DeviceObjects \subseteq live

\* C25: create_vertex_buffer writes the staging buffer before it submits the copy, and
\* destroys the staging buffer and frees its memory only after vkQueueWaitIdle on the
\* transfer queue returned, with the copy executed: the vertex buffer then holds the
\* vertices; the device-local vertex buffer is released by destroy() and by no other
\* operation.
C25_StagingLifetime ==
  /\ [](call.op = "create_vertex_buffer" =>
          /\ AllBefore(log, "vkMapMemory", "memcpy")
          /\ AllBefore(log, "memcpy", "vkQueueSubmit")
          /\ AllBefore(log, "memcpy", "vkCmdCopyBuffer")
          /\ AllBefore(log, "vkQueueSubmit", "vkQueueWaitIdle")
          /\ AllBefore(log, "vkQueueWaitIdle", "vkDestroyBuffer")
          /\ AllBefore(log, "vkQueueWaitIdle", "vkFreeMemory")
          /\ AllBefore(log, "vkDestroyBuffer", "vkFreeMemory")
          /\ Has(log, "vkQueueSubmit") => Count(log, "memcpy") = 1
          /\ (Has(log, "vkDestroyBuffer") \/ Has(log, "vkFreeMemory")) =>
               /\ transfer_queue = <<>>
               /\ Count(log, "vkQueueWaitIdle") = 1
          /\ \A i \in 1 .. Len(log) :
               /\ log[i][1] = "vkDestroyBuffer" => log[i][2] = StagingBufferHandle
               /\ log[i][1] = "vkFreeMemory" => log[i][2] = StagingMemoryHandle
          /\ call.outcome = "returned" =>
               /\ {VertexBufferHandle, VertexMemoryHandle} \subseteq live
               /\ {StagingBufferHandle, StagingMemoryHandle} \cap live = {}
               /\ call.submit = VK_SUCCESS => buffer_data[VertexBufferHandle] = "vertices")
  /\ [](phase \in {"vertex_buffer_created", "ready", "wait_fence"} =>
          {VertexBufferHandle, VertexMemoryHandle} \subseteq live)
  /\ [][(\E h \in {VertexBufferHandle, VertexMemoryHandle} : h \in live /\ h \notin live')
          => (call'.op = "destroy" /\ phase' = "destroyed")]_vars

C25_Witness ==
  /\ call.op = "create_vertex_buffer"
  /\ call.outcome = "returned"
  /\ call.submit = VK_SUCCESS
  /\ phase = "vertex_buffer_created"
  /\ buffer_data[VertexBufferHandle] = "vertices"
  /\ buffer_data[StagingBufferHandle] = "none"
  /\ LastName(log) = "vkFreeMemory"

\* C26: every draw_frame call returns (or ends in a fatal error) when the GPU
\* completes every submitted command buffer and signals its fence: no call stays
\* blocked in the fence wait of its slot.
C26_DrawFrameReturns == (phase = "wait_fence") ~> (phase # "wait_fence")

====
